---- MODULE Spec2Model ----
(***************************************************************************)
(* Verification model of risco_temp_cabo: thermal risk of an overhead      *)
(* conductor (CIGRE 601 heat balance, hourly kriging, Monte Carlo          *)
(* propagation, NBR 5422 risk classification).                             *)
(*                                                                         *)
(* Numbers.  Python floats are modelled as tagged records                  *)
(*   [k |-> "fin", v |-> n]   a finite value, n an integer in the unit     *)
(*                            stated where the value is used               *)
(*   [k |-> "nan", v |-> 0]   NaN                                          *)
(*   [k |-> "inf", v |-> 0]   +infinity                                    *)
(* so that np.isfinite / np.isnan and the comparison rules of NaN (every   *)
(* ordered comparison with NaN is False) are computed, not assumed.        *)
(* A quotient a / b is kept as the pair [num, den] and compared by cross   *)
(* multiplication.                                                         *)
(***************************************************************************)
EXTENDS Integers, Sequences, FiniteSets, TLC

VARIABLES
    \* ---- risk_analysis.py : RiskAnalyzer ----
    temperaturas_distribuicao,  \* argument of calcular_risco_termico
    temperatura_max_projeto,    \* argument of calcular_risco_termico
    probabilidade_excedencia,   \* last probability computed / classified
    categoria,                  \* 'categoria' of the last classification
    pcRisco,                    \* position of the risk pipeline
    \* ---- thermal_model.py : CigreModeloTermico ----
    condutor,                   \* parametros_condutor of the model instance
    cenario,                    \* arguments of the call under study
    solucao,                    \* result of resolver_temperatura_condutor
    ampacidade,                 \* result of calcular_ampacidade
    resistencias,               \* results of calcular_resistencia_ac
    pcTermico,                  \* position of the thermal calls
    \* ---- simulation.py : MonteCarloSimulator.executar_simulacao ----
    entradaMC,                  \* arguments of executar_simulacao
    iteracao,                   \* i of the loop of _executar_loop_simulacao
    temperaturas_condutor,      \* accepted temperatures, in order
    iteracoes_com_erro,         \* failed iterations
    ultimaIteracao,             \* ghost: what the last iteration did
    respostasSolver,            \* ghost: what the solver returned, per sample
    resultadoMC,                \* resultado_final
    pcMC,                       \* position of executar_simulacao
    \* ---- geoprocessing.py : GeoProcessor.executar_krigagem_horaria ----
    dados_sincronizados,        \* station rows and the columns of the frame
    num_pontos,                 \* len(coords_linha)
    variaveis_ambientais,       \* the requested variables, a sequence
    horas_unicas,               \* unique timestamps, sorted
    indiceHora,                 \* position of the loop over horas_unicas
    indiceVariavel,             \* position of the loop over the variables
    resultados_hora,            \* the dict built by _processar_hora_krigagem
    resultados_krigagem,        \* the dict returned
    tentativasKrig,             \* ghost: calls of _executar_krigagem_variavel
    melhor_modelo,              \* ghost: variogram model of the last call
    pcKrig,                     \* position of executar_krigagem_horaria
    \* ---- geoprocessing.py : the post-filters of the kriged means ----
    filtroVariavel,             \* variavel of the filtered array
    filtroValores,              \* z_pred as the kriging returned it
    filtroSaidas,               \* the array after each pass of the filter
    \* ---- main.py : AnalisadorRiscoTermico.executar_analise_completa ----
    cenarioMain,                \* the files and the flag the run finds
    etapas,                     \* ghost: the calls made, in order
    pontos_linha,               \* self.pontos_linha: the azimuth of each point
    self_resultados_krigagem,   \* self.resultados_krigagem
    idx_ponto,                  \* position of the loop over the points
    idx_hora,                   \* position of the loop over the timestamps
    combinacoes_processadas,    \* cells the loops went through
    resultados_finais,          \* self.resultados_finais
    arquivos_salvos,            \* files written
    pcMain,                     \* position of executar_analise_completa
    \* ---- validators.py : DataValidator.validar_parametros_condutor ----
    parametrosArquivo,          \* the conductor parameters of the JSON file
    eh_valido,                  \* first value of validar_parametros_condutor
    erros,                      \* second value: the error list
    parametros_cabo,            \* self.parametros_cabo of the analyser
    modelo_termico,             \* parameters held by the model constructed
    pcVal,                      \* position of loading and construction
    \* ---- risk_analysis.py : the reductions of a temperature distribution ----
    distribuicaoRed,            \* temperaturas_distribuicao, argument of the three calls
    temp_confianca,             \* result of calcular_temperatura_confianca
    intervalo_confianca,        \* result of calcular_intervalo_confianca
    vida_util,                  \* result of calcular_vida_util_estimada
    chamadasRed,                \* the calls already made
    \* ---- simulation.py : _reconstruir_vento and _calcular_angulo_vento ----
    componentesVento,           \* u and v in 1e-2 m/s, and what v holds below that grid
    azimuteVento,               \* azimute_linha, degrees
    vento_reconstruido,         \* result of _reconstruir_vento
    vento_oposto,               \* the same for the wind turned by 180 degrees
    angulo_ataque,              \* result of _calcular_angulo_vento
    angulo_oposto,              \* the same for the wind turned by 180 degrees
    pcVento,                    \* position inside the iteration
    \* ---- geoprocessing.py : GeoProcessor._ajustar_variograma_automatico ----
    entradaVario,               \* the stations, the variable, what each candidate gives
    n_validacao,                \* len(indices_validacao)
    modeloAjustado,             \* the model returned
    pcVario,                    \* position of _ajustar_variograma_automatico
    \* ---- geoprocessing.py : GeoProcessor.validar_resultados_krigagem ----
    entradaQual,                \* how many timestamps, which of them hold a NaN, and where
    horaQual,                   \* position of the loop over the timestamps
    horas_com_nan,              \* timestamps with a NaN mean so far
    pontos_com_nan,             \* per variable, the NaN means so far
    estatisticasQual,           \* the dict returned, or the exception
    pcQual,                     \* position of validar_resultados_krigagem
    \* ---- simulation.py : executar_simulacao and the global generator of np.random ----
    estadoRNG,                  \* state of the global generator of np.random
    chamadasSem,                \* ghost: the calls of executar_simulacao, with their results
    sorteiosAlheios,            \* ghost: draws made by other code between the calls
    \* ---- geoprocessing.py : GeoProcessor.discretizar_linha ----
    dados_linha,                \* the vertices of the route, projected, with chainage and azimuth
    distancia_entre_pontos,     \* the spacing, metres
    segmentoDisc,               \* i of the loop over the segments
    pontos_discretizados,       \* the points emitted, in order
    pcDisc                      \* position of discretizar_linha

varsRisco == <<temperaturas_distribuicao, temperatura_max_projeto,
               probabilidade_excedencia, categoria, pcRisco>>

varsTermico == <<condutor, cenario, solucao, ampacidade, resistencias, pcTermico>>

varsMC == <<entradaMC, iteracao, temperaturas_condutor, iteracoes_com_erro,
            ultimaIteracao, respostasSolver, resultadoMC, pcMC>>

varsKrig == <<dados_sincronizados, num_pontos, variaveis_ambientais, horas_unicas,
              indiceHora, indiceVariavel, resultados_hora, resultados_krigagem,
              tentativasKrig, melhor_modelo, pcKrig>>

varsFiltro == <<filtroVariavel, filtroValores, filtroSaidas>>

varsMain == <<cenarioMain, etapas, pontos_linha, self_resultados_krigagem, idx_ponto,
              idx_hora, combinacoes_processadas, resultados_finais, arquivos_salvos,
              pcMain>>

varsVal == <<parametrosArquivo, eh_valido, erros, parametros_cabo, modelo_termico, pcVal>>

varsRed == <<distribuicaoRed, temp_confianca, intervalo_confianca, vida_util, chamadasRed>>

varsVento == <<componentesVento, azimuteVento, vento_reconstruido, vento_oposto,
               angulo_ataque, angulo_oposto, pcVento>>

varsVario == <<entradaVario, n_validacao, modeloAjustado, pcVario>>

varsQual == <<entradaQual, horaQual, horas_com_nan, pontos_com_nan, estatisticasQual, pcQual>>

varsSem == <<estadoRNG, chamadasSem, sorteiosAlheios>>

varsDisc == <<dados_linha, distancia_entre_pontos, segmentoDisc, pontos_discretizados, pcDisc>>

vars == <<varsRisco, varsTermico, varsMC, varsKrig, varsFiltro, varsMain, varsVal,
          varsRed, varsVento, varsVario, varsQual, varsSem, varsDisc>>

\* what the actions of one component leave unchanged
foraRisco == <<varsTermico, varsMC, varsKrig, varsFiltro, varsMain, varsVal, varsRed,
               varsVento, varsVario, varsQual, varsSem, varsDisc>>
foraTermico == <<varsRisco, varsMC, varsKrig, varsFiltro, varsMain, varsVal, varsRed,
                 varsVento, varsVario, varsQual, varsSem, varsDisc>>
foraMC == <<varsRisco, varsTermico, varsKrig, varsFiltro, varsMain, varsVal, varsRed,
            varsVento, varsVario, varsQual, varsSem, varsDisc>>
foraKrig == <<varsRisco, varsTermico, varsMC, varsFiltro, varsMain, varsVal, varsRed,
              varsVento, varsVario, varsQual, varsSem, varsDisc>>
foraFiltro == <<varsRisco, varsTermico, varsMC, varsKrig, varsMain, varsVal, varsRed,
                varsVento, varsVario, varsQual, varsSem, varsDisc>>
foraMain == <<varsRisco, varsTermico, varsMC, varsFiltro, varsVal, varsRed, varsVento,
              varsVario, varsQual, varsSem, varsDisc>>
foraVal == <<varsRisco, varsTermico, varsMC, varsKrig, varsFiltro, varsMain, varsRed,
             varsVento, varsVario, varsQual, varsSem, varsDisc>>
foraRed == <<varsRisco, varsTermico, varsMC, varsKrig, varsFiltro, varsMain, varsVal,
             varsVento, varsVario, varsQual, varsSem, varsDisc>>
foraVento == <<varsRisco, varsTermico, varsMC, varsKrig, varsFiltro, varsMain, varsVal,
               varsRed, varsVario, varsQual, varsSem, varsDisc>>
foraVario == <<varsRisco, varsTermico, varsMC, varsKrig, varsFiltro, varsMain, varsVal,
               varsRed, varsVento, varsQual, varsSem, varsDisc>>
foraQual == <<varsRisco, varsTermico, varsMC, varsKrig, varsFiltro, varsMain, varsVal,
              varsRed, varsVento, varsVario, varsSem, varsDisc>>
foraSem == <<varsRisco, varsTermico, varsMC, varsKrig, varsFiltro, varsMain, varsVal,
             varsRed, varsVento, varsVario, varsQual, varsDisc>>
foraDisc == <<varsRisco, varsTermico, varsMC, varsKrig, varsFiltro, varsMain, varsVal,
              varsRed, varsVento, varsVario, varsQual, varsSem>>

-----------------------------------------------------------------------------
(* Floats *)

Fin(n) == [k |-> "fin", v |-> n]
NaN == [k |-> "nan", v |-> 0]
PInf == [k |-> "inf", v |-> 0]

isfinite(x) == x.k = "fin"
isnan(x) == x.k = "nan"

\* x > y for floats: False as soon as one side is NaN
FloatGT(x, y) ==
    CASE isnan(x) \/ isnan(y) -> FALSE
      [] x.k = "inf" -> y.k # "inf"
      [] y.k = "inf" -> FALSE
      [] OTHER -> x.v > y.v

\* x < y for floats
FloatLT(x, y) == FloatGT(y, x)

-----------------------------------------------------------------------------
(* Quotients: a probability is NaN or num / den with den > 0 *)

ProbNaN == [nan |-> TRUE, num |-> 0, den |-> 1]
Quociente(n, d) == [nan |-> FALSE, num |-> n, den |-> d]

\* p < lim / 10000, False for NaN ; lim is a threshold in units of 1e-4
ProbLT(p, lim) == ~p.nan /\ p.num * (100 * 100) < lim * p.den

-----------------------------------------------------------------------------
(* risk_analysis.py *)

\* _definir_criterios_nbr_5422: the 'limite' of each criterion, in 1e-4
LimiteRiscoBaixo == 100
LimiteRiscoModerado == 500
LimiteRiscoAlto == 1000

\* temperaturas_distribuicao[np.isfinite(temperaturas_distribuicao)]
RECURSIVE FiltrarFinitos(_)
FiltrarFinitos(s) ==
    IF s = <<>> THEN <<>>
    ELSE IF isfinite(Head(s)) THEN <<Head(s)>> \o FiltrarFinitos(Tail(s))
         ELSE FiltrarFinitos(Tail(s))

\* np.sum(temperaturas_validas > temperatura_max_projeto)
RECURSIVE ContarExcedencias(_, _)
ContarExcedencias(s, lim) ==
    IF s = <<>> THEN 0
    ELSE (IF FloatGT(Head(s), lim) THEN 1 ELSE 0) + ContarExcedencias(Tail(s), lim)

\* A plausible slip: counting >= instead of >
RECURSIVE ContarExcedenciasGE(_, _)
ContarExcedenciasGE(s, lim) ==
    IF s = <<>> THEN 0
    ELSE (IF ~FloatLT(Head(s), lim) THEN 1 ELSE 0) + ContarExcedenciasGE(Tail(s), lim)

calcular_risco_termico_ge(dist, lim) ==
    IF Len(dist) = 0 THEN ProbNaN
    ELSE LET validas == FiltrarFinitos(dist) IN
         IF Len(validas) = 0 THEN ProbNaN
         ELSE Quociente(ContarExcedenciasGE(validas, lim), Len(validas))

calcular_risco_termico(dist, lim) ==
    IF Len(dist) = 0 THEN ProbNaN
    ELSE LET validas == FiltrarFinitos(dist) IN
         IF Len(validas) = 0 THEN ProbNaN
         ELSE Quociente(ContarExcedencias(validas, lim), Len(validas))

\* A plausible slip: boundary values fall into the lower category (<= for <)
classificar_risco_le(p) ==
    IF p.nan THEN "indefinido"
    ELSE IF p.num * (100 * 100) <= LimiteRiscoBaixo * p.den THEN "baixo"
    ELSE IF p.num * (100 * 100) <= LimiteRiscoModerado * p.den THEN "moderado"
    ELSE IF p.num * (100 * 100) <= LimiteRiscoAlto * p.den THEN "alto"
    ELSE "critico"

classificar_risco_nbr_5422(p) ==
    IF p.nan THEN "indefinido"
    ELSE IF ProbLT(p, LimiteRiscoBaixo) THEN "baixo"
    ELSE IF ProbLT(p, LimiteRiscoModerado) THEN "moderado"
    ELSE IF ProbLT(p, LimiteRiscoAlto) THEN "alto"
    ELSE "critico"

-----------------------------------------------------------------------------
(* thermal_model.py : CigreModeloTermico                                    *)
(*                                                                          *)
(* Units of the integer arithmetic (TLC integers are 32 bit):               *)
(*   temperature      degC, whole degrees (the solver's resolution)         *)
(*   current          100 A ; a current is kept by its square, the          *)
(*                    quotient [num, den], the only way the code uses it    *)
(*   resistance       1e-7 ohm/m                                            *)
(*   power            mW/m                                                  *)
(*   diametro         1e-5 m ; emissividade, absortividade in tenths        *)
(*   radiacao_solar   W/m2 ; velocidade_vento cm/s ; angles in degrees      *)
(* The fractional power laws (air properties, Nusselt correlations) are     *)
(* evaluated by linear interpolation in tables of the source's formulas.    *)

Abs(x) == IF x < 0 THEN -x ELSE x
Max(a, b) == IF a >= b THEN a ELSE b
Min(a, b) == IF a <= b THEN a ELSE b

\* y at x on the segment (x0, y0)-(x1, y1), without leaving 32 bits
InterpolarSegmento(x, x0, x1, y0, y1) ==
    LET w == x1 - x0
        s == (w \div 1000) + 1
    IN  y0 + ((y1 - y0) * ((x - x0) \div s)) \div Max(1, w \div s)

\* piecewise-linear reading of a table <<x, y>>, x increasing; the end
\* values outside the table
RECURSIVE Interpolar(_, _, _)
Interpolar(tab, x, i) ==
    IF x <= tab[1][1] THEN tab[1][2]
    ELSE IF i >= Len(tab) THEN tab[Len(tab)][2]
    ELSE IF x < tab[i + 1][1]
         THEN InterpolarSegmento(x, tab[i][1], tab[i + 1][1], tab[i][2], tab[i + 1][2])
         ELSE Interpolar(tab, x, i + 1)

\* sin(a) * 1000 for a multiple of 15 degrees in [0, 90]
TabelaSeno == <<0, 259, 500, 707, 866, 966, 1000>>
Seno1000(a) == TabelaSeno[(a \div 15) + 1]

\* variant of calcular_resistencia_ac: linear extrapolation beyond 75 degC
calcular_resistencia_ac_extrapola(cond, temperatura_condutor) ==
    IF temperatura_condutor <= 25 THEN cond.resistencia_ac_25
    ELSE cond.resistencia_ac_25
           + ((temperatura_condutor - 25)
                * (cond.resistencia_ac_75 - cond.resistencia_ac_25)) \div (75 - 25)

\* calcular_resistencia_ac: the conductors of the model have a slope
\* (R75 - R25) / 50 that is a whole number of units, so \div is exact
calcular_resistencia_ac(cond, temperatura_condutor) ==
    IF temperatura_condutor <= 25 THEN cond.resistencia_ac_25
    ELSE IF temperatura_condutor >= 75 THEN cond.resistencia_ac_75
    ELSE cond.resistencia_ac_25
           + ((temperatura_condutor - 25)
                * (cond.resistencia_ac_75 - cond.resistencia_ac_25)) \div (75 - 25)

\* a current of i hundred amperes
Corrente(i) == [num |-> i * i, den |-> 1]

\* calcular_aquecimento_joule: corrente**2 * r_ac
calcular_aquecimento_joule(cond, corrente, temperatura_condutor) ==
    LET r_ac == calcular_resistencia_ac(cond, temperatura_condutor)
    IN  (corrente.num \div corrente.den) * r_ac
          + ((corrente.num % corrente.den) * r_ac) \div corrente.den

\* calcular_aquecimento_solar with fator_forma = 0.5 (no solar geometry is
\* passed by equacao_balanco_termico or calcular_ampacidade)
calcular_aquecimento_solar(cond, radiacao_solar, azimute_linha) ==
    (cond.absortividade * cond.diametro * radiacao_solar) \div 2000

\* _condutividade_termica_ar: k_ref * (T / 293.15) ** 0.8, in 1e-5 W/m.K
TabelaCondutividade ==
    <<<<200, 1937>>, <<250, 2315>>, <<300, 2679>>, <<350, 3031>>, <<400, 3372>>,
      <<450, 3706>>, <<500, 4031>>, <<550, 4351>>, <<600, 4664>>, <<650, 4973>>,
      <<700, 5277>>>>
condutividade_termica_ar(temperatura_abs) ==
    Interpolar(TabelaCondutividade, temperatura_abs, 1)

\* _viscosidade_cinematica_ar (Sutherland), in 1e-8 m2/s
TabelaViscosidade ==
    <<<<200, 1103>>, <<250, 1328>>, <<300, 1533>>, <<350, 1722>>, <<400, 1898>>,
      <<450, 2063>>, <<500, 2218>>, <<550, 2365>>, <<600, 2505>>, <<650, 2639>>,
      <<700, 2767>>>>
viscosidade_cinematica_ar(temperatura_abs) ==
    Interpolar(TabelaViscosidade, temperatura_abs, 1)

\* _nusselt_conveccao_natural, Nu * 1000, of Ra = Gr * Pr
TabelaNatural2 ==
    <<<<1, 675>>, <<3, 719>>, <<10, 771>>, <<30, 822>>, <<100, 882>>,
      <<300, 940>>, <<1000, 1008>>>>
TabelaNatural3 ==
    <<<<1000, 2835>>, <<3000, 3336>>, <<10000, 3987>>, <<30000, 4690>>,
      <<100000, 5605>>, <<300000, 6595>>, <<1000000, 7881>>, <<3000000, 9273>>,
      <<10000000, 11082>>, <<30000000, 13038>>, <<100000000, 15581>>,
      <<300000000, 18332>>, <<1000000000, 21908>>>>
TabelaNatural4 == <<<<1000000000, 41823>>, <<2000000000, 47644>>>>
nusselt_conveccao_natural(Ra) ==
    IF Ra < 1 THEN 400
    ELSE IF Ra < 1000 THEN Interpolar(TabelaNatural2, Ra, 1)
    ELSE IF Ra < 1000000000 THEN Interpolar(TabelaNatural3, Ra, 1)
    ELSE Interpolar(TabelaNatural4, Ra, 1)

\* _nusselt_conveccao_forcada, Nu * 1000, of Re10 = 10 * Re
TabelaForcada2 == <<<<4, 577>>, <<10, 821>>, <<20, 1072>>, <<40, 1400>>>>
TabelaForcada3 == <<<<40, 1173>>, <<100, 1798>>, <<200, 2484>>, <<400, 3431>>>>
TabelaForcada4 ==
    <<<<400, 1701>>, <<1000, 2996>>, <<3000, 5908>>, <<10000, 12432>>,
      <<20000, 19080>>, <<40000, 29283>>>>
TabelaForcada5 ==
    <<<<40000, 18970>>, <<100000, 39664>>, <<300000, 96046>>,
      <<1000000, 253162>>, <<3000000, 613028>>>>
nusselt_conveccao_forcada(Re10) ==
    IF Re10 < 4 THEN 800
    ELSE IF Re10 < 40 THEN Interpolar(TabelaForcada2, Re10, 1)
    ELSE IF Re10 < 400 THEN Interpolar(TabelaForcada3, Re10, 1)
    ELSE IF Re10 < 40000 THEN Interpolar(TabelaForcada4, Re10, 1)
    ELSE Interpolar(TabelaForcada5, Re10, 1)

\* calcular_resfriamento_convectivo, for a finite angle
calcular_resfriamento_convectivo(cond, velocidade_vento, angulo_vento, temperatura_ar, temperatura_condutor) ==
    LET \* temp_filme = (T_ar + T_c) / 2 + 273.15, in K
        temp_filme == (10 * (temperatura_ar + temperatura_condutor) + 5463) \div 20
        nu_ar == viscosidade_cinematica_ar(temp_filme)
        k_ar == condutividade_termica_ar(temp_filme)
        deltaT == temperatura_condutor - temperatura_ar
        \* v_perp = velocidade_vento * sin(angulo_vento), cm/s
        v_perp == (velocidade_vento * Seno1000(angulo_vento)) \div 1000
        \* Re = max(1e-6, v_perp * D / nu_ar), in tenths
        vd == v_perp * cond.diametro
        Re10 == Max(0, (vd \div nu_ar) * 100 + ((vd % nu_ar) * 100) \div nu_ar)
        \* Gr = g * beta * |T_c - T_ar| * D**3 / nu_ar**2, beta = 1 / temp_filme
        d4 == cond.diametro \div 10
        n7 == nu_ar \div 10
        Gr == (((((d4 * d4 * d4 * 10) \div (n7 * n7)) * 981) \div 10) * Abs(deltaT))
                 \div temp_filme
        Ra == (Gr \div 10) * 7 + ((Gr % 10) * 7) \div 10
        Nu_nat == nusselt_conveccao_natural(Ra)
        Nu == IF v_perp < 10 THEN Nu_nat
              ELSE Max(nusselt_conveccao_forcada(Re10), Nu_nat)
        \* pi * D * h_c = pi * Nu * k_ar, in mW/m.K
        pi_D_h == (((Nu * k_ar) \div 1000) * 314) \div 10000
    IN  pi_D_h * deltaT

\* (T + 273.15)**2 / 10
QuadradoAbs(t) == ((20 * t + 5463) * (20 * t + 5463)) \div 4000

\* calcular_resfriamento_radiativo:
\* emissividade * sigma * pi * D * (T_c_abs**4 - T_ar_abs**4);
\* sigma * pi = 1.78e-7 W/m2K4
calcular_resfriamento_radiativo(cond, temperatura_ar, temperatura_condutor) ==
    LET coef == (cond.emissividade * cond.diametro * 178) \div 1000
        qc == QuadradoAbs(temperatura_condutor)
        qa == QuadradoAbs(temperatura_ar)
        d4 == qc * qc - qa * qa
        mag == (coef * (Abs(d4) \div 10000)) \div 1000
    IN  IF d4 >= 0 THEN mag ELSE -mag

\* variant of equacao_balanco_termico: 0 instead of +inf when a term fails
equacao_balanco_zero(cond, temperatura_condutor, corrente, radiacao_solar, azimute_linha, velocidade_vento, angulo_vento, temperatura_ar) ==
    IF angulo_vento.k = "inf" THEN Fin(0)
    ELSE IF isnan(angulo_vento) \/ isnan(radiacao_solar) THEN NaN
    ELSE IF radiacao_solar.k = "inf" THEN PInf
    ELSE Fin(calcular_aquecimento_joule(cond, corrente, temperatura_condutor)
             + calcular_aquecimento_solar(cond, radiacao_solar.v, azimute_linha)
             - calcular_resfriamento_convectivo(cond, velocidade_vento, angulo_vento.v,
                                                temperatura_ar, temperatura_condutor)
             - calcular_resfriamento_radiativo(cond, temperatura_ar, temperatura_condutor))

\* equacao_balanco_termico: P_joule + P_solar - P_convectivo - P_radiativo;
\* math.sin of an infinite angle raises, and any exception gives +inf;
\* a NaN input gives NaN
equacao_balanco_termico(cond, temperatura_condutor, corrente, radiacao_solar, azimute_linha, velocidade_vento, angulo_vento, temperatura_ar) ==
    IF angulo_vento.k = "inf" THEN PInf
    ELSE IF isnan(angulo_vento) \/ isnan(radiacao_solar) THEN NaN
    ELSE IF radiacao_solar.k = "inf" THEN PInf
    ELSE LET P_joule == calcular_aquecimento_joule(cond, corrente, temperatura_condutor)
             P_solar == calcular_aquecimento_solar(cond, radiacao_solar.v, azimute_linha)
             P_convectivo == calcular_resfriamento_convectivo(
                                 cond, velocidade_vento, angulo_vento.v,
                                 temperatura_ar, temperatura_condutor)
             P_radiativo == calcular_resfriamento_radiativo(
                                 cond, temperatura_ar, temperatura_condutor)
         IN  Fin(P_joule + P_solar - P_convectivo - P_radiativo)

\* sign of a float that is not NaN: +inf is positive
Sinal(x) == IF x.k = "inf" THEN 1 ELSE IF x.v > 0 THEN 1 ELSE IF x.v < 0 THEN -1 ELSE 0

\* f_min * f_max > 0 : inf * 0 and every product with NaN are NaN, not > 0
ProdutoPositivo(x, y) ==
    /\ ~isnan(x) /\ ~isnan(y)
    /\ Sinal(x) * Sinal(y) > 0

\* x is a root of F at the resolution of one degree: F vanishes at x or
\* changes sign between x and a neighbour inside [a, b]
RaizEm(F, a, b, x) ==
    /\ isfinite(F[x])
    /\ \/ F[x].v = 0
       \/ x < b /\ isfinite(F[x + 1]) /\ Sinal(F[x]) * Sinal(F[x + 1]) < 0
       \/ x > a /\ isfinite(F[x - 1]) /\ Sinal(F[x - 1]) * Sinal(F[x]) < 0

Raizes(F, a, b) == {x \in a..b : RaizEm(F, a, b, x)}

\* scipy.optimize.brentq(f, a, b, xtol): ValueError unless f(a) and f(b)
\* differ in sign; otherwise a point within xtol of a sign change of f in
\* [a, b].  With a NaN at an end the library either raises or runs to some
\* point of the bracket, depending on its version.
brentq(F, a, b) ==
    IF isnan(F[a]) \/ isnan(F[b])
    THEN {[raised |-> TRUE, x |-> NaN]} \cup {[raised |-> FALSE, x |-> Fin(x)] : x \in {a, b}}
    ELSE IF ProdutoPositivo(F[a], F[b]) THEN {[raised |-> TRUE, x |-> NaN]}
    ELSE IF ~isfinite(F[a]) \/ ~isfinite(F[b]) THEN {[raised |-> TRUE, x |-> NaN]}
    ELSE IF F[a].v = 0 THEN {[raised |-> FALSE, x |-> Fin(a)]}
    ELSE IF F[b].v = 0 THEN {[raised |-> FALSE, x |-> Fin(b)]}
    ELSE {[raised |-> FALSE, x |-> Fin(x)] : x \in Raizes(F, a, b)}

\* scipy.optimize.fsolve(f, x0, xtol): no bracket; it ends on a root, or
\* stays at the estimate when it makes no progress, or raises
fsolve(F, a, b, x0) ==
    {[raised |-> TRUE, x |-> NaN], [raised |-> FALSE, x |-> Fin(x0)]}
        \cup {[raised |-> FALSE, x |-> Fin(x)] : x \in Raizes(F, a, b)}

\* funcao_objetivo on the whole interval the solver may visit
FuncaoObjetivo(cond, corrente, radiacao_solar, azimute_linha, velocidade_vento, angulo_vento, temperatura_ar) ==
    [T_c \in (temperatura_ar - 10)..(temperatura_ar + 300) |->
        equacao_balanco_termico(cond, T_c, corrente, radiacao_solar, azimute_linha,
                                velocidade_vento, angulo_vento, temperatura_ar)]

\* variant of LimitesBrentq: the upper limit raised to T_air + 300 when
\* the balance is positive at both ends
LimitesAlargadosAcima(F, temperatura_ar) ==
    IF ProdutoPositivo(F[temperatura_ar], F[temperatura_ar + 200])
    THEN [T_min |-> temperatura_ar, T_max |-> temperatura_ar + 300]
    ELSE [T_min |-> temperatura_ar, T_max |-> temperatura_ar + 200]

\* thermal_model.py:335-347: the bracket handed to brentq
LimitesBrentq(F, temperatura_ar) ==
    LET f_min == F[temperatura_ar]
        f_max == F[temperatura_ar + 200]
    IN  IF ProdutoPositivo(f_min, f_max)
        THEN IF FloatGT(f_min, Fin(0))
             THEN [T_min |-> temperatura_ar - 10, T_max |-> temperatura_ar + 200]
             ELSE [T_min |-> temperatura_ar, T_max |-> temperatura_ar + 300]
        ELSE [T_min |-> temperatura_ar, T_max |-> temperatura_ar + 200]

\* the body of the try of resolver_temperatura_condutor: what the root
\* finder gives, raised or returned
TentarResolver(cond, estimativa_inicial, corrente, radiacao_solar, azimute_linha, velocidade_vento, angulo_vento, temperatura_ar, metodo) ==
    LET F == FuncaoObjetivo(cond, corrente, radiacao_solar, azimute_linha,
                            velocidade_vento, angulo_vento, temperatura_ar)
    IN  IF metodo = "brentq"
        THEN LET lim == LimitesBrentq(F, temperatura_ar)
             IN  brentq(F, lim.T_min, lim.T_max)
        ELSE fsolve(F, temperatura_ar - 10, temperatura_ar + 300, estimativa_inicial)

\* variant of resolver_temperatura_condutor: no except clause, the solver's
\* exception reaches the caller
resolver_sem_except(cond, estimativa_inicial, corrente, radiacao_solar, azimute_linha, velocidade_vento, angulo_vento, temperatura_ar, metodo) ==
    {IF o.raised
        THEN [excecao |-> TRUE, T |-> NaN, recuo |-> TRUE]
        ELSE [excecao |-> FALSE, T |-> o.x, recuo |-> FALSE] :
     o \in TentarResolver(cond, estimativa_inicial, corrente, radiacao_solar,
                          azimute_linha, velocidade_vento, angulo_vento,
                          temperatura_ar, metodo)}

\* resolver_temperatura_condutor: the possible results.  T is the float
\* returned; excecao tells an exception left the function; recuo is a
\* ghost, true when the except clause produced T (the caller sees only T)
resolver_temperatura_condutor(cond, estimativa_inicial, corrente, radiacao_solar, azimute_linha, velocidade_vento, angulo_vento, temperatura_ar, metodo) ==
    {IF o.raised
        THEN [excecao |-> FALSE, T |-> Fin(temperatura_ar + 50), recuo |-> TRUE]
        ELSE [excecao |-> FALSE, T |-> o.x, recuo |-> FALSE] :
     o \in TentarResolver(cond, estimativa_inicial, corrente, radiacao_solar,
                          azimute_linha, velocidade_vento, angulo_vento,
                          temperatura_ar, metodo)}

\* variant of calcular_ampacidade: the resistance at 25 degC instead of the
\* resistance at temperatura_maxima
calcular_ampacidade_r25(cond, temperatura_maxima, radiacao_solar, azimute_linha, velocidade_vento, angulo_vento, temperatura_ar) ==
    LET P_convectivo == calcular_resfriamento_convectivo(
                            cond, velocidade_vento, angulo_vento,
                            temperatura_ar, temperatura_maxima)
        P_radiativo == calcular_resfriamento_radiativo(cond, temperatura_ar,
                                                       temperatura_maxima)
        P_solar == calcular_aquecimento_solar(cond, radiacao_solar, azimute_linha)
        P_joule_max == P_convectivo + P_radiativo - P_solar
    IN  IF P_joule_max <= 0 THEN Corrente(0)
        ELSE [num |-> P_joule_max, den |-> cond.resistencia_ac_25]

\* calcular_ampacidade, for finite inputs: 0, or sqrt(P_joule_max / R_ac)
\* kept by its square
calcular_ampacidade(cond, temperatura_maxima, radiacao_solar, azimute_linha, velocidade_vento, angulo_vento, temperatura_ar) ==
    LET P_convectivo == calcular_resfriamento_convectivo(
                            cond, velocidade_vento, angulo_vento,
                            temperatura_ar, temperatura_maxima)
        P_radiativo == calcular_resfriamento_radiativo(cond, temperatura_ar,
                                                       temperatura_maxima)
        P_solar == calcular_aquecimento_solar(cond, radiacao_solar, azimute_linha)
        P_joule_max == P_convectivo + P_radiativo - P_solar
    IN  IF P_joule_max <= 0 THEN Corrente(0)
        ELSE [num |-> P_joule_max,
              den |-> calcular_resistencia_ac(cond, temperatura_maxima)]

-----------------------------------------------------------------------------
(* Calls on a CigreModeloTermico instance *)

\* conductors: diametro 1e-5 m, resistances 1e-7 ohm/m, emissividade and
\* absortividade in tenths
CondutorDrake ==
    [diametro |-> 2814, resistencia_ac_25 |-> 728, resistencia_ac_75 |-> 928,
     emissividade |-> 8, absortividade |-> 8]
CondutorFino ==
    [diametro |-> 1830, resistencia_ac_25 |-> 1100, resistencia_ac_75 |-> 1350,
     emissividade |-> 5, absortividade |-> 5]
\* the constructor takes any dictionary: R75 = R25 and R75 < R25 included
CondutorPlano == [CondutorDrake EXCEPT !.resistencia_ac_75 = 728]
CondutorInvertido ==
    [CondutorDrake EXCEPT !.resistencia_ac_25 = 900, !.resistencia_ac_75 = 700]

Condutores == {CondutorDrake, CondutorFino}

SemSolucao == [metodo |-> "nenhum", T |-> NaN, excecao |-> FALSE, recuo |-> FALSE]
SemAmpacidade == [temperatura_maxima |-> 0, I |-> Corrente(0)]
CenarioPadrao ==
    [corrente |-> Corrente(5), radiacao_solar |-> Fin(800), azimute_linha |-> 0,
     velocidade_vento |-> 200, angulo_vento |-> Fin(90), temperatura_ar |-> 25]

\* the thermal model before any call
TermicoParado ==
    /\ condutor = CondutorDrake
    /\ cenario = CenarioPadrao
    /\ solucao = SemSolucao
    /\ ampacidade = SemAmpacidade
    /\ resistencias = <<>>
    /\ pcTermico = "inicio"

\* scenarios: currents of 0, 500, 3000 and 6000 A; radiation negative and
\* NaN included; still air, a cross wind of 2 m/s, an infinite angle
Cenarios ==
    {[corrente |-> Corrente(i), radiacao_solar |-> r, azimute_linha |-> 0,
      velocidade_vento |-> w[1], angulo_vento |-> w[2], temperatura_ar |-> ta] :
        i \in {0, 5, 30, 60},
        r \in {Fin(0), Fin(800), Fin(-2000), NaN},
        w \in {<<0, Fin(0)>>, <<200, Fin(90)>>, <<200, PInf>>},
        ta \in {-10, 25}}

InitTermico ==
    /\ condutor \in Condutores
    /\ cenario \in Cenarios
    /\ solucao = SemSolucao
    /\ ampacidade = SemAmpacidade
    /\ resistencias = <<>>
    /\ pcTermico = "inicio"

Solucoes(cond, cen, metodo) ==
    resolver_temperatura_condutor(
        cond, cen.temperatura_ar + 20, cen.corrente, cen.radiacao_solar,
        cen.azimute_linha, cen.velocidade_vento, cen.angulo_vento,
        cen.temperatura_ar, metodo)

\* a call resolver_temperatura_condutor(..., metodo='brentq')
Termico_ResolverBrentq ==
    /\ pcTermico = "inicio"
    /\ \E o \in Solucoes(condutor, cenario, "brentq") :
          solucao' = [metodo |-> "brentq", T |-> o.T, excecao |-> o.excecao,
                      recuo |-> o.recuo]
    /\ pcTermico' = "resolvido"
    /\ UNCHANGED <<condutor, cenario, ampacidade, resistencias>>
    /\ UNCHANGED foraTermico

\* a call resolver_temperatura_condutor(..., metodo='fsolve')
Termico_ResolverFsolve ==
    /\ pcTermico = "inicio"
    /\ \E o \in Solucoes(condutor, cenario, "fsolve") :
          solucao' = [metodo |-> "fsolve", T |-> o.T, excecao |-> o.excecao,
                      recuo |-> o.recuo]
    /\ pcTermico' = "resolvido"
    /\ UNCHANGED <<condutor, cenario, ampacidade, resistencias>>
    /\ UNCHANGED foraTermico

TemperaturasMaximas == {20, 75, 100}

\* a call calcular_ampacidade(temperatura_maxima, ...) with finite arguments
Termico_Ampacidade ==
    /\ pcTermico = "inicio"
    /\ isfinite(cenario.radiacao_solar) /\ isfinite(cenario.angulo_vento)
    /\ \E tmax \in TemperaturasMaximas :
          ampacidade' =
              [temperatura_maxima |-> tmax,
               I |-> calcular_ampacidade(
                         condutor, tmax, cenario.radiacao_solar.v,
                         cenario.azimute_linha, cenario.velocidade_vento,
                         cenario.angulo_vento.v, cenario.temperatura_ar)]
    /\ pcTermico' = "ampacidade"
    /\ UNCHANGED <<condutor, cenario, solucao, resistencias>>
    /\ UNCHANGED foraTermico

NextTermico ==
    \/ Termico_ResolverBrentq
    \/ Termico_ResolverFsolve
    \/ Termico_Ampacidade

\* calcular_resistencia_ac called at two temperatures on one conductor
TemperaturasEnsaio == {-40, 0, 24, 25, 26, 40, 50, 74, 75, 76, 100, 250}

InitResistencia ==
    /\ condutor \in Condutores \cup {CondutorPlano, CondutorInvertido}
    /\ cenario = CenarioPadrao
    /\ solucao = SemSolucao
    /\ ampacidade = SemAmpacidade
    /\ resistencias = <<>>
    /\ pcTermico = "inicio"

Termico_Resistencia ==
    /\ Len(resistencias) < 2
    /\ \E t \in TemperaturasEnsaio :
          resistencias' = Append(resistencias,
                                 [T |-> t, R |-> calcular_resistencia_ac(condutor, t)])
    /\ UNCHANGED <<condutor, cenario, solucao, ampacidade, pcTermico>>
    /\ UNCHANGED foraTermico

NextResistencia == Termico_Resistencia

-----------------------------------------------------------------------------
(* Risk pipeline: gerar_relatorio_risco computes the probability from a     *)
(* distribution and classifies it; classificar_risco_nbr_5422 is also       *)
(* public and is called with any probability.                               *)

MaxDist == 3

ValoresTemperatura == {NaN, PInf, Fin(60), Fin(75), Fin(80)}
LimitesProjeto == {Fin(60), Fin(75)}

RECURSIVE SeqsAte(_, _)
SeqsAte(S, n) ==
    IF n = 0 THEN {<<>>}
    ELSE LET menores == SeqsAte(S, n - 1) IN
         menores \cup {Append(s, x) : s \in {t \in menores : Len(t) = n - 1}, x \in S}

\* probabilities handed directly to the classifier, in 1e-4, with NaN
ProbEntradas ==
    {ProbNaN} \cup
    {Quociente(n, 100 * 100) :
        n \in {0, 99, 100, 101, 499, 500, 501, 999, 1000, 1001, 100 * 100}}

\* the risk evaluator before any call
RiscoParado ==
    /\ temperaturas_distribuicao = <<>>
    /\ temperatura_max_projeto = Fin(75)
    /\ probabilidade_excedencia = ProbNaN
    /\ categoria = "nenhuma"
    /\ pcRisco = "inicio"

InitRisco ==
    /\ temperaturas_distribuicao \in SeqsAte(ValoresTemperatura, MaxDist)
    /\ temperatura_max_projeto \in LimitesProjeto
    /\ probabilidade_excedencia = ProbNaN
    /\ categoria = "nenhuma"
    /\ pcRisco = "inicio"

\* risk_analysis.py:322  risco_termico = self.calcular_risco_termico(...)
Risco_Calcular ==
    /\ pcRisco = "inicio"
    /\ probabilidade_excedencia' =
           calcular_risco_termico(temperaturas_distribuicao, temperatura_max_projeto)
    /\ pcRisco' = "calculado"
    /\ UNCHANGED <<temperaturas_distribuicao, temperatura_max_projeto, categoria>>
    /\ UNCHANGED foraRisco

\* risk_analysis.py:323  classificacao_risco = self.classificar_risco_nbr_5422(risco_termico)
Risco_Classificar ==
    /\ pcRisco = "calculado"
    /\ categoria' = classificar_risco_nbr_5422(probabilidade_excedencia)
    /\ pcRisco' = "classificado"
    /\ UNCHANGED <<temperaturas_distribuicao, temperatura_max_projeto,
                   probabilidade_excedencia>>
    /\ UNCHANGED foraRisco

\* a direct call classificar_risco_nbr_5422(p)
Risco_ClassificarDireto ==
    /\ pcRisco = "inicio"
    /\ \E p \in ProbEntradas :
          /\ probabilidade_excedencia' = p
          /\ categoria' = classificar_risco_nbr_5422(p)
    /\ pcRisco' = "direto"
    /\ UNCHANGED <<temperaturas_distribuicao, temperatura_max_projeto>>
    /\ UNCHANGED foraRisco

NextRisco ==
    \/ Risco_Calcular
    \/ Risco_Classificar
    \/ Risco_ClassificarDireto

-----------------------------------------------------------------------------
(* simulation.py : MonteCarloSimulator                                      *)
(* temperatures in whole degC, radiation in W/m2, wind components and wind  *)
(* speed in cm/s, angles in degrees rounded to 15                           *)

\* config.py
TEMP_AR_MIN == -50
TEMP_AR_MAX == 60
RADIACAO_MIN == 0
RADIACAO_MAX == 4000
VENTO_VEL_MAX == 50
PERCENTIL_CONFIANCA == 90

variaveis_obrigatorias == {"temperatura_ar", "radiacao_global", "vento_u", "vento_v"}

\* _validar_dados_entrada: TRUE when it returns, FALSE when it raises ValueError
validar_dados_entrada(medias_ambientais, desvios_ambientais) ==
    \A var \in variaveis_obrigatorias :
        /\ var \in DOMAIN medias_ambientais
        /\ var \in DOMAIN desvios_ambientais
        /\ isfinite(medias_ambientais[var])
        /\ isfinite(desvios_ambientais[var])
        /\ desvios_ambientais[var].v >= 0

\* the draws of the model: media + k * desvio
FatoresAmostra == {-1, 0, 1}

\* variant of AmostrarValor: the normal draw spreads by one unit whatever
\* the deviation
AmostrarComRuido(variavel, media, desvio, metodo) ==
    {[raised |-> FALSE, valor |-> media + k * (desvio + 1)] : k \in FatoresAmostra}

\* one draw of np.random for one variable: raised, or the value drawn.
\* normal(media, desvio) is media when desvio = 0; lognormal is positive;
\* triangular(a, media, b) lies in [a, b] = media -+ sqrt(6) * desvio and
\* raises ValueError when a = b
AmostrarValor(variavel, media, desvio, metodo) ==
    LET normal == {[raised |-> FALSE, valor |-> media + k * desvio] : k \in FatoresAmostra}
    IN  IF metodo = "normal" THEN normal
        ELSE IF metodo = "lognormal"
        THEN IF variavel = "radiacao_global"
             THEN IF media > 0 /\ desvio > 0
                  THEN {[raised |-> FALSE, valor |-> Max(1, media + k * desvio)] :
                            k \in FatoresAmostra}
                  ELSE {[raised |-> FALSE, valor |-> Max(0, media + k * desvio)] :
                            k \in FatoresAmostra}
             ELSE normal
        ELSE IF metodo = "triangular"
        THEN IF desvio = 0 THEN {[raised |-> TRUE, valor |-> 0]}
             ELSE {[raised |-> FALSE, valor |-> media + 2 * k * desvio] :
                       k \in FatoresAmostra}
        ELSE {[raised |-> TRUE, valor |-> 0]}

\* np.clip
Clip(valor, minimo, maximo) == Max(minimo, Min(valor, maximo))

\* _aplicar_limites_fisicos
aplicar_limites_fisicos(variavel, valor) ==
    IF variavel = "temperatura_ar" THEN Clip(valor, TEMP_AR_MIN, TEMP_AR_MAX)
    ELSE IF variavel = "radiacao_global" THEN Clip(valor, RADIACAO_MIN, RADIACAO_MAX)
    ELSE IF variavel \in {"vento_u", "vento_v"}
    THEN Clip(valor, -(100 * VENTO_VEL_MAX), 100 * VENTO_VEL_MAX)
    ELSE valor

AmostraNula ==
    [temperatura_ar |-> 0, radiacao_global |-> 0, vento_u |-> 0, vento_v |-> 0]

\* _amostrar_variaveis_ambientais: raised, or the four clamped values
amostrar_variaveis_ambientais(medias, desvios, metodo) ==
    LET S(var) == AmostrarValor(var, medias[var].v, desvios[var].v, metodo)
    IN  IF \E var \in variaveis_obrigatorias : \E o \in S(var) : o.raised
        THEN {[raised |-> TRUE, amostra |-> AmostraNula]}
        ELSE {[raised |-> FALSE,
               amostra |->
                 [temperatura_ar |-> aplicar_limites_fisicos("temperatura_ar", t.valor),
                  radiacao_global |-> aplicar_limites_fisicos("radiacao_global", r.valor),
                  vento_u |-> aplicar_limites_fisicos("vento_u", u.valor),
                  vento_v |-> aplicar_limites_fisicos("vento_v", v.valor)]] :
                 t \in S("temperatura_ar"), r \in S("radiacao_global"),
                 u \in S("vento_u"), v \in S("vento_v")}

\* floor(sqrt(n))
RECURSIVE RaizEntre(_, _, _)
RaizEntre(n, lo, hi) ==
    IF lo >= hi THEN lo
    ELSE LET m == (lo + hi + 1) \div 2
         IN  IF m * m <= n THEN RaizEntre(n, m, hi) ELSE RaizEntre(n, lo, m - 1)
RaizInteira(n) == RaizEntre(n, 0, 10000)

\* np.degrees(np.arctan2(y, x)) rounded to a multiple of 15, in (-180, 180];
\* the table holds 1000 * tan of 7.5, 22.5, ..., 82.5 degrees
TabelaTangente == <<132, 414, 767, 1303, 2414, 7596>>
AnguloBase(ay, ax) ==
    15 * Cardinality({i \in 1..6 : ay * 1000 >= TabelaTangente[i] * ax})
Atan2Graus(y, x) ==
    IF x = 0 /\ y = 0 THEN 0
    ELSE LET b == AnguloBase(Abs(y), Abs(x))
         IN  IF x >= 0 THEN (IF y >= 0 THEN b ELSE -b)
             ELSE (IF y >= 0 THEN 180 - b ELSE -(180 - b))

\* _reconstruir_vento
reconstruir_vento(u, v) ==
    LET velocidade == RaizInteira(u * u + v * v)
        direcao == Atan2Graus(v, u)
    IN  [velocidade |-> Min(velocidade, 100 * VENTO_VEL_MAX),
         direcao |-> IF direcao < 0 THEN direcao + 360 ELSE direcao]

\* a variant of _calcular_angulo_vento: the fold at 90 degrees is missing
calcular_angulo_sem_dobra(direcao_vento, azimute_linha) ==
    LET a0 == Abs(direcao_vento - azimute_linha)
    IN  IF a0 > 180 THEN 360 - a0 ELSE a0

\* _calcular_angulo_vento
calcular_angulo_vento(direcao_vento, azimute_linha) ==
    LET a0 == Abs(direcao_vento - azimute_linha)
        a1 == IF a0 > 180 THEN 360 - a0 ELSE a0
    IN  IF a1 > 90 THEN 180 - a1 ELSE a1

\* variant of validar_temperatura_resultado: no tolerance below the air
\* temperature
validar_sem_tolerancia(temperatura, temperatura_ar) ==
    /\ isfinite(temperatura)
    /\ ~(temperatura.v < temperatura_ar)
    /\ ~(temperatura.v > temperatura_ar + 200)

\* _validar_temperatura_resultado, temperatura a float
validar_temperatura_resultado(temperatura, temperatura_ar) ==
    /\ isfinite(temperatura)
    /\ ~(temperatura.v < temperatura_ar - 5)
    /\ ~(temperatura.v > temperatura_ar + 200)

\* the body of one iteration of _executar_loop_simulacao: every outcome,
\* with what was sampled, what the solver returned (recuo: its fallback)
\* and whether the temperature is appended (aceita) or the iteration is
\* counted in iteracoes_com_erro
IteracoesPossiveis(cond, ent) ==
    UNION {
        IF a.raised
        THEN {[excecao |-> TRUE, amostra |-> a.amostra, velocidade |-> 0,
               direcao |-> 0, angulo_vento |-> 0, T |-> NaN, recuo |-> FALSE,
               aceita |-> FALSE]}
        ELSE LET vento_info == reconstruir_vento(a.amostra.vento_u, a.amostra.vento_v)
                 angulo_vento == calcular_angulo_vento(vento_info.direcao,
                                                       ent.azimute_linha)
             IN  {[excecao |-> s.excecao, amostra |-> a.amostra,
                   velocidade |-> vento_info.velocidade,
                   direcao |-> vento_info.direcao,
                   angulo_vento |-> angulo_vento, T |-> s.T, recuo |-> s.recuo,
                   aceita |-> ~s.excecao
                              /\ validar_temperatura_resultado(
                                     s.T, a.amostra.temperatura_ar)] :
                  s \in resolver_temperatura_condutor(
                            cond, a.amostra.temperatura_ar + 20,
                            Corrente(ent.corrente), Fin(a.amostra.radiacao_global),
                            ent.azimute_linha, vento_info.velocidade,
                            Fin(angulo_vento), a.amostra.temperatura_ar, "brentq")}
        : a \in amostrar_variaveis_ambientais(ent.medias, ent.desvios,
                                              ent.metodo_amostragem)}

RECURSIVE Soma(_)
Soma(s) == IF s = <<>> THEN 0 ELSE Head(s) + Soma(Tail(s))
RECURSIVE SomaQuadrados(_)
SomaQuadrados(s) == IF s = <<>> THEN 0 ELSE Head(s) * Head(s) + SomaQuadrados(Tail(s))

\* np.percentile(a, q) (linear interpolation), in hundredths, a sorted
Percentil(ordenadas, q) ==
    LET n == Len(ordenadas)
        h == (n - 1) * q
        lo == h \div 100
        fr == h % 100
    IN  IF fr = 0 THEN 100 * ordenadas[lo + 1]
        ELSE 100 * ordenadas[lo + 1] + fr * (ordenadas[lo + 2] - ordenadas[lo + 1])

EstatisticasNaN ==
    [media |-> ProbNaN, mediana |-> NaN, desvio_padrao |-> ProbNaN,
     minimo |-> NaN, maximo |-> NaN, percentil_5 |-> NaN, percentil_10 |-> NaN,
     percentil_90 |-> NaN, percentil_95 |-> NaN, percentil_99 |-> NaN]

\* _calcular_estatisticas: media a quotient, desvio_padrao kept by its
\* square (the variance, a quotient), mediana and percentiles in hundredths
calcular_estatisticas(temperaturas) ==
    IF Len(temperaturas) = 0 THEN EstatisticasNaN
    ELSE LET n == Len(temperaturas)
             ord == SortSeq(temperaturas, LAMBDA a, b : a < b)
         IN  [media |-> Quociente(Soma(temperaturas), n),
              mediana |-> Fin(Percentil(ord, 50)),
              desvio_padrao |->
                  Quociente(n * SomaQuadrados(temperaturas)
                              - Soma(temperaturas) * Soma(temperaturas), n * n),
              minimo |-> Fin(ord[1]),
              maximo |-> Fin(ord[n]),
              percentil_5 |-> Fin(Percentil(ord, 5)),
              percentil_10 |-> Fin(Percentil(ord, 10)),
              percentil_90 |-> Fin(Percentil(ord, PERCENTIL_CONFIANCA)),
              percentil_95 |-> Fin(Percentil(ord, 95)),
              percentil_99 |-> Fin(Percentil(ord, 99))]

-----------------------------------------------------------------------------
(* executar_simulacao: validation, then the loop one iteration at a time,   *)
(* then the statistics and the result                                       *)

MaxIter == 2

Medias(t, r, u, v) ==
    [temperatura_ar |-> Fin(t), radiacao_global |-> Fin(r), vento_u |-> Fin(u),
     vento_v |-> Fin(v)]

EntradaPadrao ==
    [medias |-> Medias(25, 800, 200, 0), desvios |-> Medias(0, 0, 0, 0),
     azimute_linha |-> 0, corrente |-> 5, num_iteracoes |-> 1,
     metodo_amostragem |-> "normal"]

\* currents of 500 A and 3000 A; a hot calm hour near the clamping limits;
\* at most one variable spread at a time with the normal method
EntradasNormais ==
    {[EntradaPadrao EXCEPT !.medias = m, !.desvios = d, !.azimute_linha = az,
                           !.corrente = c, !.num_iteracoes = n] :
        m \in {Medias(25, 800, 200, 0), Medias(58, 100, 0, 0)},
        d \in {Medias(0, 0, 0, 0), Medias(5, 0, 0, 0), Medias(0, 200, 0, 0),
               Medias(0, 0, 300, 0)},
        az \in {0, 45},
        c \in {5, 30},
        n \in 0..MaxIter}

EntradasOutrosMetodos ==
    {[EntradaPadrao EXCEPT !.desvios = Medias(0, 100, 0, 0),
                           !.metodo_amostragem = "lognormal", !.num_iteracoes = n] :
        n \in 1..MaxIter}
    \cup {[EntradaPadrao EXCEPT !.desvios = Medias(0, 0, 0, 0),
                                !.metodo_amostragem = met, !.num_iteracoes = n] :
            met \in {"lognormal", "triangular", "uniforme"}, n \in 1..MaxIter}
    \cup {[EntradaPadrao EXCEPT !.desvios = Medias(2, 50, 50, 50),
                                !.metodo_amostragem = "triangular"]}

\* rejected by _validar_dados_entrada: a NaN mean, a negative deviation, a
\* missing variable
EntradasInvalidas ==
    {[EntradaPadrao EXCEPT !.medias.temperatura_ar = NaN],
     [EntradaPadrao EXCEPT !.desvios.vento_u = Fin(-1)],
     [EntradaPadrao EXCEPT !.desvios = [temperatura_ar |-> Fin(0),
                                        radiacao_global |-> Fin(0),
                                        vento_u |-> Fin(0)]]}

\* means beyond the limits of _aplicar_limites_fisicos, no spread
EntradasForaDosLimites ==
    {[EntradaPadrao EXCEPT !.medias = Medias(65, 4500, 0, 0), !.num_iteracoes = n] :
        n \in 1..MaxIter}

EntradasMC ==
    EntradasNormais \cup EntradasOutrosMetodos \cup EntradasForaDosLimites
        \cup EntradasInvalidas

SemIteracao ==
    [excecao |-> FALSE, amostra |-> AmostraNula, velocidade |-> 0, direcao |-> 0,
     angulo_vento |-> 0, T |-> NaN, recuo |-> FALSE, aceita |-> FALSE]

SemResultado ==
    [temperaturas |-> <<>>, estatisticas |-> EstatisticasNaN,
     iteracoes_validas |-> 0, iteracoes_com_erro |-> 0, taxa_sucesso |-> ProbNaN,
     parametros |-> [num_iteracoes |-> 0, corrente |-> 0, azimute_linha |-> 0,
                     metodo_amostragem |-> "nenhum"]]

\* the simulator before any call
MCParado ==
    /\ entradaMC = EntradaPadrao
    /\ iteracao = 0
    /\ temperaturas_condutor = <<>>
    /\ iteracoes_com_erro = 0
    /\ ultimaIteracao = SemIteracao
    /\ respostasSolver = {}
    /\ resultadoMC = SemResultado
    /\ pcMC = "inicio"

InitMC ==
    /\ entradaMC \in EntradasMC
    /\ iteracao = 0
    /\ temperaturas_condutor = <<>>
    /\ iteracoes_com_erro = 0
    /\ ultimaIteracao = SemIteracao
    /\ respostasSolver = {}
    /\ resultadoMC = SemResultado
    /\ pcMC = "inicio"

\* executar_simulacao up to the loop: _validar_dados_entrada raises
\* ValueError, which leaves executar_simulacao, or the loop starts
MC_Iniciar ==
    /\ pcMC = "inicio"
    /\ pcMC' = IF validar_dados_entrada(entradaMC.medias, entradaMC.desvios)
               THEN "loop" ELSE "ValueError"
    /\ UNCHANGED <<entradaMC, iteracao, temperaturas_condutor, iteracoes_com_erro,
                   ultimaIteracao, respostasSolver, resultadoMC>>
    /\ UNCHANGED foraMC

\* the solver is a function of its arguments: when it returns for a
\* sample it returns what it returned for that sample before
RespostaCoerente(r, respostas) ==
    ~r.excecao =>
        \A m \in respostas : m.amostra = r.amostra => m.T = r.T /\ m.recuo = r.recuo

\* variant of MC_Iteracao: the except clause leaves the loop body without
\* counting the iteration
MC_IteracaoSemContar ==
    /\ pcMC = "loop"
    /\ iteracao < entradaMC.num_iteracoes
    /\ \E r \in IteracoesPossiveis(condutor, entradaMC) :
          /\ ultimaIteracao' = r
          /\ IF r.aceita
             THEN temperaturas_condutor' = Append(temperaturas_condutor, r.T.v)
             ELSE UNCHANGED temperaturas_condutor
          /\ iteracoes_com_erro' =
                IF r.aceita \/ r.excecao THEN iteracoes_com_erro
                ELSE iteracoes_com_erro + 1
    /\ iteracao' = iteracao + 1
    /\ UNCHANGED <<entradaMC, respostasSolver, resultadoMC, pcMC>>
    /\ UNCHANGED foraMC

\* one iteration of the for loop of _executar_loop_simulacao
MC_Iteracao ==
    /\ pcMC = "loop"
    /\ iteracao < entradaMC.num_iteracoes
    /\ \E r \in IteracoesPossiveis(condutor, entradaMC) :
          /\ RespostaCoerente(r, respostasSolver)
          /\ ultimaIteracao' = r
          /\ respostasSolver' =
                IF r.excecao THEN respostasSolver
                ELSE respostasSolver \cup
                         {[amostra |-> r.amostra, T |-> r.T, recuo |-> r.recuo]}
          /\ IF r.aceita
             THEN /\ temperaturas_condutor' = Append(temperaturas_condutor, r.T.v)
                  /\ UNCHANGED iteracoes_com_erro
             ELSE /\ iteracoes_com_erro' = iteracoes_com_erro + 1
                  /\ UNCHANGED temperaturas_condutor
    /\ iteracao' = iteracao + 1
    /\ UNCHANGED <<entradaMC, resultadoMC, pcMC>>
    /\ UNCHANGED foraMC

\* the end of the loop, _calcular_estatisticas and resultado_final;
\* iteracoes_validas / num_iteracoes raises ZeroDivisionError for 0
MC_Concluir ==
    /\ pcMC = "loop"
    /\ iteracao = entradaMC.num_iteracoes
    /\ IF entradaMC.num_iteracoes = 0
       THEN /\ pcMC' = "ZeroDivisionError"
            /\ UNCHANGED resultadoMC
       ELSE /\ pcMC' = "fim"
            /\ resultadoMC' =
                 [temperaturas |-> temperaturas_condutor,
                  estatisticas |-> calcular_estatisticas(temperaturas_condutor),
                  iteracoes_validas |-> Len(temperaturas_condutor),
                  iteracoes_com_erro |-> iteracoes_com_erro,
                  taxa_sucesso |-> Quociente(Len(temperaturas_condutor),
                                             entradaMC.num_iteracoes),
                  parametros |-> [num_iteracoes |-> entradaMC.num_iteracoes,
                                  corrente |-> entradaMC.corrente,
                                  azimute_linha |-> entradaMC.azimute_linha,
                                  metodo_amostragem |-> entradaMC.metodo_amostragem]]
    /\ UNCHANGED <<entradaMC, iteracao, temperaturas_condutor, iteracoes_com_erro,
                   ultimaIteracao, respostasSolver>>
    /\ UNCHANGED foraMC

NextMC ==
    \/ MC_Iniciar
    \/ MC_Iteracao
    \/ MC_Concluir

-----------------------------------------------------------------------------
(* geoprocessing.py : GeoProcessor, hourly kriging                          *)
(* station values and kriging outputs are floats; temperature in degC,      *)
(* radiation in W/m2, wind in m/s; a timestamp is a whole number of hours   *)

\* config.py
MODELO_VARIOGRAMA == "linear"

\* np.full(num_pontos, np.nan)
VetorNaN(n) == [i \in 1..n |-> NaN]

\* alternative to criar_resultado_nan_variavel: arrays of length 0
criar_resultado_vazio(n) ==
    [media |-> <<>>, variancia |-> <<>>, desvio_padrao |-> <<>>]

\* _criar_resultado_nan_variavel
criar_resultado_nan_variavel(n) ==
    [media |-> VetorNaN(n), variancia |-> VetorNaN(n), desvio_padrao |-> VetorNaN(n)]

\* a sequence without repetition as a set
Elementos(seq) == {seq[i] : i \in DOMAIN seq}

\* _criar_resultado_nan
criar_resultado_nan(variaveis, n) ==
    [variavel \in Elementos(variaveis) |-> criar_resultado_nan_variavel(n)]

\* dict[key] = value
Atribuir(dict, key, value) ==
    [k \in DOMAIN dict \cup {key} |-> IF k = key THEN value ELSE dict[k]]

DictVazio == [k \in {} |-> 0]

\* variant of AnularForaDaFaixa: a value outside the range clamped to the
\* boundary it passed
LimitarAFaixa(valores, limite_min, limite_max) ==
    [i \in DOMAIN valores |->
        IF FloatLT(valores[i], Fin(limite_min)) THEN Fin(limite_min)
        ELSE IF FloatGT(valores[i], Fin(limite_max)) THEN Fin(limite_max)
        ELSE valores[i]]

\* values outside [limite_min, limite_max] become NaN; a comparison with
\* NaN is False, so a NaN stays
AnularForaDaFaixa(valores, limite_min, limite_max) ==
    [i \in DOMAIN valores |->
        IF FloatLT(valores[i], Fin(limite_min)) \/ FloatGT(valores[i], Fin(limite_max))
        THEN NaN ELSE valores[i]]

\* _validar_radiacao_krigagem
validar_radiacao_krigagem(valores_radiacao) ==
    AnularForaDaFaixa(valores_radiacao, 0, 1400)

\* _validar_temperatura_krigagem
validar_temperatura_krigagem(valores_temperatura) ==
    AnularForaDaFaixa(valores_temperatura, -10, 55)

\* _validar_vento_krigagem
validar_vento_krigagem(valores_vento, variavel) ==
    IF variavel = "vento_velocidade"
    THEN AnularForaDaFaixa(valores_vento, 0, 50)
    ELSE AnularForaDaFaixa(valores_vento, -50, 50)

\* variant of Maximo0: the raw variance kept as the library returned it
MaximoOmitido(x) == x

\* np.maximum(x, 0) and np.sqrt on one entry; NaN goes through both
Maximo0(x) == IF isfinite(x) THEN Fin(Max(x.v, 0)) ELSE x
RaizFloat(x) == IF isfinite(x) THEN Fin(RaizInteira(x.v)) ELSE x

\* the candidate models of _ajustar_variograma_automatico
modelos_testar(variavel) ==
    IF variavel = "radiacao_global"
    THEN <<"gaussian", "spherical", "exponential", "linear">>
    ELSE <<"linear", "power", "gaussian", "spherical", "exponential">>

\* a variant of the loop over the candidates: <= for <, the last of the
\* best candidates wins
RECURSIVE EscolherUltimoModelo(_, _, _, _, _)
EscolherUltimoModelo(modelos, pontuacoes, i, melhor, melhor_score) ==
    IF i > Len(modelos) THEN melhor
    ELSE LET score == pontuacoes[modelos[i]]
         IN  IF ~isnan(score) /\ ~FloatGT(score, melhor_score)
             THEN EscolherUltimoModelo(modelos, pontuacoes, i + 1, modelos[i], score)
             ELSE EscolherUltimoModelo(modelos, pontuacoes, i + 1, melhor, melhor_score)

\* the loop over the candidates: pontuacoes[modelo] is the score of the
\* candidate, NaN when its fit raised or predicted a NaN (no score then)
RECURSIVE EscolherModelo(_, _, _, _, _)
EscolherModelo(modelos, pontuacoes, i, melhor, melhor_score) ==
    IF i > Len(modelos) THEN melhor
    ELSE LET score == pontuacoes[modelos[i]]
         IN  IF FloatLT(score, melhor_score)
             THEN EscolherModelo(modelos, pontuacoes, i + 1, modelos[i], score)
             ELSE EscolherModelo(modelos, pontuacoes, i + 1, melhor, melhor_score)

\* _ajustar_variograma_automatico: 80 % of the stations train, the others
\* validate
ajustar_variograma_automatico(n_estacoes, variavel, pontuacoes) ==
    IF n_estacoes < 4 THEN "linear"
    ELSE LET n_treino == Max(2, (8 * n_estacoes) \div 10)
         IN  IF n_estacoes - n_treino = 0 THEN MODELO_VARIOGRAMA
             ELSE EscolherModelo(modelos_testar(variavel), pontuacoes, 1,
                                 MODELO_VARIOGRAMA, PInf)

\* the scores the candidates may get; with fewer than 4 stations no
\* candidate is evaluated
Pontuacoes(n_estacoes, variavel) ==
    IF n_estacoes < 4 THEN {[m \in Elementos(modelos_testar(variavel)) |-> NaN]}
    ELSE [Elementos(modelos_testar(variavel)) -> {NaN, Fin(1), Fin(2)}]

\* what OrdinaryKriging(...).execute('points', ...) gives for n points: it
\* raises, or returns predictions and variances of length n; here a value
\* inside the physical range with a positive variance, a value outside it
\* with a slightly negative variance, a value with an infinite variance
\* (a degenerate system), or NaN
ValorPlausivel(variavel) ==
    IF variavel = "radiacao_global" THEN 500
    ELSE IF variavel = "temperatura_ar" THEN 20 ELSE 3
ValorImpossivel(variavel) ==
    IF variavel = "radiacao_global" THEN -5
    ELSE IF variavel = "temperatura_ar" THEN 60 ELSE 51
SaidasKrigagem(variavel, n) ==
    {[raised |-> TRUE, z_pred |-> <<>>, ss_pred |-> <<>>]}
    \cup {[raised |-> FALSE, z_pred |-> [i \in 1..n |-> par[1]],
           ss_pred |-> [i \in 1..n |-> par[2]]] :
            par \in {<<Fin(ValorPlausivel(variavel)), Fin(4)>>,
                     <<Fin(ValorImpossivel(variavel)), Fin(-1)>>,
                     <<Fin(ValorPlausivel(variavel)), PInf>>,
                     <<NaN, NaN>>}}

\* _executar_krigagem_variavel after a successful execute
executar_krigagem_variavel(saida, variavel) ==
    LET ss_pred == [i \in DOMAIN saida.ss_pred |-> Maximo0(saida.ss_pred[i])]
        z_pred == IF variavel = "radiacao_global"
                  THEN validar_radiacao_krigagem(saida.z_pred)
                  ELSE IF variavel = "temperatura_ar"
                  THEN validar_temperatura_krigagem(saida.z_pred)
                  ELSE IF variavel \in {"vento_u", "vento_v", "vento_velocidade"}
                  THEN validar_vento_krigagem(saida.z_pred, variavel)
                  ELSE saida.z_pred
    IN  [media |-> z_pred, variancia |-> ss_pred,
         desvio_padrao |-> [i \in DOMAIN ss_pred |-> RaizFloat(ss_pred[i])]]

\* dados_sincronizados.loc[index == hora]
DadosHora(dados, hora) == SelectSeq(dados.linhas, LAMBDA r : r.hora = hora)

\* dados_hora[variavel].values
ValoresEstacoes(dados_hora, variavel) ==
    [i \in DOMAIN dados_hora |-> dados_hora[i].valores[variavel]]

\* alternative to valores_validos: a missing value counted as 0
valores_nan_zero(valores_estacoes) ==
    [i \in DOMAIN valores_estacoes |->
        IF isnan(valores_estacoes[i]) THEN Fin(0) ELSE valores_estacoes[i]]

\* valores_estacoes[~np.isnan(valores_estacoes)]
valores_validos(valores_estacoes) ==
    SelectSeq(valores_estacoes, LAMBDA x : ~isnan(x))

\* index.unique().sort_values()
RECURSIVE Ordenar(_)
Ordenar(S) ==
    IF S = {} THEN <<>>
    ELSE LET m == CHOOSE x \in S : \A y \in S : x <= y
         IN  <<m>> \o Ordenar(S \ {m})
HorasUnicas(dados) == Ordenar({dados.linhas[i].hora : i \in DOMAIN dados.linhas})

-----------------------------------------------------------------------------
(* executar_krigagem_horaria: the loop over the timestamps, and inside it   *)
(* _processar_hora_krigagem with its loop over the variables                *)

MaxHoras == 2
MaxPontos == 2

Linha(t, r, u) == [temperatura_ar |-> t, radiacao_global |-> r, vento_u |-> u]

\* the stations of one timestamp: one station only; two stations with one
\* radiation value; three stations with gaps; four stations; two stations
\* without any temperature and with radiation 0
PadroesHora ==
    {<<Linha(Fin(20), Fin(500), Fin(3))>>,
     <<Linha(Fin(20), Fin(500), Fin(3)), Linha(Fin(22), NaN, Fin(4))>>,
     <<Linha(NaN, NaN, Fin(1)), Linha(Fin(21), NaN, NaN), Linha(Fin(23), Fin(600), Fin(2))>>,
     <<Linha(Fin(20), Fin(500), Fin(3)), Linha(Fin(22), Fin(550), Fin(4)),
       Linha(Fin(24), Fin(600), Fin(5)), Linha(Fin(21), NaN, Fin(2))>>,
     <<Linha(NaN, Fin(0), NaN), Linha(NaN, Fin(0), NaN)>>}

ComHora(padrao, h) == [i \in DOMAIN padrao |-> [hora |-> h, valores |-> padrao[i]]]

\* the rows of the frame, the latest timestamp first
RECURSIVE LinhasDe(_, _)
LinhasDe(padroes, h) ==
    IF h = 0 THEN <<>> ELSE ComHora(padroes[h], h) \o LinhasDe(padroes, h - 1)

ColunasCompletas ==
    {"latitude", "longitude", "temperatura_ar", "radiacao_global", "vento_u"}

\* frames of 1..MaxHoras timestamps, and one frame without coordinates
DadosPossiveis ==
    {[linhas |-> LinhasDe(ps, Len(ps)), colunas |-> ColunasCompletas] :
        ps \in UNION {[1..n -> PadroesHora] : n \in 1..MaxHoras}}
    \cup {[linhas |-> ComHora(<<Linha(Fin(20), Fin(500), Fin(3)),
                               Linha(Fin(22), Fin(550), Fin(4))>>, 1),
           colunas |-> {"temperatura_ar", "radiacao_global", "vento_u"}]}

VariaveisPedidas ==
    {<<"temperatura_ar", "radiacao_global">>, <<"vento_u", "umidade_relativa">>}

\* the processor before any call
KrigParado ==
    /\ dados_sincronizados = [linhas |-> <<>>, colunas |-> ColunasCompletas]
    /\ num_pontos = 1
    /\ variaveis_ambientais = <<>>
    /\ horas_unicas = <<>>
    /\ indiceHora = 1
    /\ indiceVariavel = 1
    /\ resultados_hora = DictVazio
    /\ resultados_krigagem = DictVazio
    /\ tentativasKrig = {}
    /\ melhor_modelo = "nenhum"
    /\ pcKrig = "inicio"

\* executar_krigagem_horaria entered: horas_unicas and coords_linha taken
InitKrig ==
    /\ dados_sincronizados \in DadosPossiveis
    /\ num_pontos \in 1..MaxPontos
    /\ variaveis_ambientais \in VariaveisPedidas
    /\ horas_unicas = HorasUnicas(dados_sincronizados)
    /\ indiceHora = 1
    /\ indiceVariavel = 1
    /\ resultados_hora = DictVazio
    /\ resultados_krigagem = DictVazio
    /\ tentativasKrig = {}
    /\ melhor_modelo = "nenhum"
    /\ pcKrig = "horas"

HoraAtual == horas_unicas[indiceHora]

\* _processar_hora_krigagem before its loop: it raises (no row, a row
\* without latitude / longitude, fewer than 2 stations) and the except of
\* executar_krigagem_horaria stores _criar_resultado_nan, or the loop over
\* the variables starts
Krig_IniciarHora ==
    /\ pcKrig = "horas"
    /\ indiceHora <= Len(horas_unicas)
    /\ LET dados_hora == DadosHora(dados_sincronizados, HoraAtual)
           raised == \/ Len(dados_hora) = 0
                     \/ ~({"latitude", "longitude"} \subseteq dados_sincronizados.colunas)
                     \/ Len(dados_hora) < 2
       IN  IF raised
           THEN /\ resultados_krigagem' =
                     Atribuir(resultados_krigagem, HoraAtual,
                              criar_resultado_nan(variaveis_ambientais, num_pontos))
                /\ indiceHora' = indiceHora + 1
                /\ UNCHANGED <<pcKrig, resultados_hora, indiceVariavel>>
           ELSE /\ resultados_hora' = DictVazio
                /\ indiceVariavel' = 1
                /\ pcKrig' = "variaveis"
                /\ UNCHANGED <<resultados_krigagem, indiceHora>>
    /\ UNCHANGED <<dados_sincronizados, num_pontos, variaveis_ambientais,
                   horas_unicas, tentativasKrig, melhor_modelo>>
    /\ UNCHANGED foraKrig

\* one turn of the loop over the variables in _processar_hora_krigagem
Krig_ProcessarVariavel ==
    /\ pcKrig = "variaveis"
    /\ indiceVariavel <= Len(variaveis_ambientais)
    /\ LET variavel == variaveis_ambientais[indiceVariavel]
           dados_hora == DadosHora(dados_sincronizados, HoraAtual)
           falha == criar_resultado_nan_variavel(num_pontos)
       IN  IF variavel \notin dados_sincronizados.colunas
           THEN /\ resultados_hora' = Atribuir(resultados_hora, variavel, falha)
                /\ UNCHANGED <<tentativasKrig, melhor_modelo>>
           ELSE LET validos == valores_validos(ValoresEstacoes(dados_hora, variavel))
                IN  IF Len(validos) < 2
                    THEN /\ resultados_hora' = Atribuir(resultados_hora, variavel, falha)
                         /\ UNCHANGED <<tentativasKrig, melhor_modelo>>
                    ELSE \E modelo \in
                               {ajustar_variograma_automatico(Len(validos), variavel, p) :
                                    p \in Pontuacoes(Len(validos), variavel)} :
                         \E saida \in SaidasKrigagem(variavel, num_pontos) :
                            /\ tentativasKrig' = tentativasKrig \cup
                                  {[hora |-> HoraAtual, variavel |-> variavel,
                                    valores |-> validos]}
                            /\ melhor_modelo' = modelo
                            /\ resultados_hora' =
                                  Atribuir(resultados_hora, variavel,
                                           IF saida.raised THEN falha
                                           ELSE executar_krigagem_variavel(saida, variavel))
    /\ indiceVariavel' = indiceVariavel + 1
    /\ UNCHANGED <<dados_sincronizados, num_pontos, variaveis_ambientais,
                   horas_unicas, indiceHora, resultados_krigagem, pcKrig>>
    /\ UNCHANGED foraKrig

\* _processar_hora_krigagem returns and the timestamp gets its entry
Krig_FecharHora ==
    /\ pcKrig = "variaveis"
    /\ indiceVariavel > Len(variaveis_ambientais)
    /\ resultados_krigagem' = Atribuir(resultados_krigagem, HoraAtual, resultados_hora)
    /\ indiceHora' = indiceHora + 1
    /\ pcKrig' = "horas"
    /\ UNCHANGED <<dados_sincronizados, num_pontos, variaveis_ambientais,
                   horas_unicas, indiceVariavel, resultados_hora, tentativasKrig,
                   melhor_modelo>>
    /\ UNCHANGED foraKrig

\* executar_krigagem_horaria returns resultados_krigagem
Krig_Concluir ==
    /\ pcKrig = "horas"
    /\ indiceHora > Len(horas_unicas)
    /\ pcKrig' = "fim"
    /\ UNCHANGED <<dados_sincronizados, num_pontos, variaveis_ambientais,
                   horas_unicas, indiceHora, indiceVariavel, resultados_hora,
                   resultados_krigagem, tentativasKrig, melhor_modelo>>
    /\ UNCHANGED foraKrig

NextKrig ==
    \/ Krig_IniciarHora
    \/ Krig_ProcessarVariavel
    \/ Krig_FecharHora
    \/ Krig_Concluir

-----------------------------------------------------------------------------
(* The post-filters of _executar_krigagem_variavel on their own: an array   *)
(* of predictions goes through the filter of its variable, and the result   *)
(* goes through it again                                                     *)

MaxFiltro == 2
MaxPassagens == 2

\* predictions on, next to and far from every limit of the filters, NaN and
\* +infinity
ValoresFiltro ==
    {Fin(n) : n \in {-51, -50, -11, -10, -1, 0, 20, 50, 51, 55, 56, 1400, 1401}}
    \cup {NaN, PInf}

VariaveisFiltradas ==
    {"radiacao_global", "temperatura_ar", "vento_u", "vento_v", "vento_velocidade"}

FiltroParado ==
    /\ filtroVariavel = "nenhuma"
    /\ filtroValores = <<>>
    /\ filtroSaidas = <<>>

InitFiltro ==
    /\ filtroVariavel \in VariaveisFiltradas
    /\ filtroValores \in UNION {[1..n -> ValoresFiltro] : n \in 1..MaxFiltro}
    /\ filtroSaidas = <<>>

\* the filter step of _executar_krigagem_variavel on z_pred
FiltrarMedia(z_pred, variavel) ==
    executar_krigagem_variavel(
        [raised |-> FALSE, z_pred |-> z_pred, ss_pred |-> z_pred], variavel).media

\* the first pass filters the predictions
Filtro_Aplicar ==
    /\ filtroSaidas = <<>>
    /\ filtroSaidas' = <<FiltrarMedia(filtroValores, filtroVariavel)>>
    /\ UNCHANGED <<filtroVariavel, filtroValores>>
    /\ UNCHANGED foraFiltro

\* a later pass filters the result of the pass before
Filtro_Reaplicar ==
    /\ Len(filtroSaidas) \in 1..(MaxPassagens - 1)
    /\ filtroSaidas' =
          Append(filtroSaidas,
                 FiltrarMedia(filtroSaidas[Len(filtroSaidas)], filtroVariavel))
    /\ UNCHANGED <<filtroVariavel, filtroValores>>
    /\ UNCHANGED foraFiltro

NextFiltro ==
    \/ Filtro_Aplicar
    \/ Filtro_Reaplicar

-----------------------------------------------------------------------------
(* main.py : AnalisadorRiscoTermico.executar_analise_completa, one step at  *)
(* a time; step 4 runs executar_krigagem_horaria of the section above       *)
(* current in 100 A, wind speed in cm/s where the thermal model takes it    *)

\* config.py
NUM_ITERACOES_MC == 10000
CORRENTE_PADRAO == 5
TEMPERATURA_MAX_PROJETO == 75
VARIAVEIS_AMBIENTAIS == <<"temperatura_ar", "radiacao_global", "vento_u", "vento_v">>

\* a call in the log; for a cell of the simulation loop, how it ended
Etapa(nome) == [nome |-> nome, ponto |-> 0, hora |-> 0, desfecho |-> "feita"]
Celula(ponto, hora, desfecho) ==
    [nome |-> "celula", ponto |-> ponto, hora |-> hora, desfecho |-> desfecho]

\* the synchronized frame: two stations at timestamp 1, and in the second
\* frame one station only at timestamp 2
LinhaMain ==
    [temperatura_ar |-> Fin(20), radiacao_global |-> Fin(500), vento_u |-> Fin(3),
     vento_v |-> Fin(3)]
DadosMain ==
    {[linhas |-> ComHora(<<LinhaMain, LinhaMain>>, 1),
      colunas |-> ColunasCompletas \cup {"vento_v"}],
     [linhas |-> ComHora(<<LinhaMain>>, 2) \o ComHora(<<LinhaMain, LinhaMain>>, 1),
      colunas |-> ColunasCompletas \cup {"vento_v"}]}

\* what the run finds: the configuration, the three inputs, the flag
\* salvar_intermediarios, whether the result files can be written, the
\* azimuth of each point of the discretized line, the synchronized frame
CenarioCompleto ==
    [config_ok |-> TRUE, parametros_validos |-> TRUE, linha_valida |-> TRUE,
     estacoes_ok |-> TRUE, salvar_intermediarios |-> TRUE, gravacao_ok |-> TRUE,
     azimutes |-> <<0>>,
     dados |-> [linhas |-> ComHora(<<LinhaMain, LinhaMain>>, 1),
                colunas |-> ColunasCompletas \cup {"vento_v"}]]

CenariosMain ==
    {[CenarioCompleto EXCEPT !.azimutes = [i \in 1..n |-> 45 * (i - 1)], !.dados = d,
                             !.salvar_intermediarios = si, !.gravacao_ok = g] :
        n \in 1..MaxPontos, d \in DadosMain, si \in BOOLEAN, g \in BOOLEAN}
    \cup {[CenarioCompleto EXCEPT !.config_ok = FALSE],
          [CenarioCompleto EXCEPT !.parametros_validos = FALSE],
          [CenarioCompleto EXCEPT !.linha_valida = FALSE],
          [CenarioCompleto EXCEPT !.parametros_validos = FALSE, !.linha_valida = FALSE],
          [CenarioCompleto EXCEPT !.estacoes_ok = FALSE]}

\* variant of carregar_todos_dados: a loader logs the validation errors
\* and returns what it read
carregar_sem_validar(cen) ==
    [raised |-> FALSE,
     etapas |-> <<Etapa("carregar_parametros_cabo"), Etapa("carregar_dados_linha"),
                  Etapa("carregar_dados_estacoes"),
                  Etapa("sincronizar_dados_estacoes")>>]

\* DataLoader.carregar_todos_dados: the loaders in order, the first
\* ValueError leaves the function
carregar_todos_dados(cen) ==
    IF ~cen.parametros_validos
    THEN [raised |-> TRUE, etapas |-> <<Etapa("carregar_parametros_cabo")>>]
    ELSE IF ~cen.linha_valida
    THEN [raised |-> TRUE,
          etapas |-> <<Etapa("carregar_parametros_cabo"), Etapa("carregar_dados_linha")>>]
    ELSE IF ~cen.estacoes_ok
    THEN [raised |-> TRUE,
          etapas |-> <<Etapa("carregar_parametros_cabo"), Etapa("carregar_dados_linha"),
                       Etapa("carregar_dados_estacoes")>>]
    ELSE [raised |-> FALSE,
          etapas |-> <<Etapa("carregar_parametros_cabo"), Etapa("carregar_dados_linha"),
                       Etapa("carregar_dados_estacoes"),
                       Etapa("sincronizar_dados_estacoes")>>]

\* _verificar_dados_validos
verificar_dados_validos(dados_hora_krigagem, ponto) ==
    \A variavel \in Elementos(VARIAVEIS_AMBIENTAIS) :
        /\ variavel \in DOMAIN dados_hora_krigagem
        /\ ~isnan(dados_hora_krigagem[variavel].media[ponto])
        /\ ~isnan(dados_hora_krigagem[variavel].variancia[ponto])

\* np.sqrt(u**2 + v**2) of two floats in m/s, in cm/s
VelocidadeMedia(u, v) ==
    IF isnan(u) \/ isnan(v) THEN NaN
    ELSE IF ~isfinite(u) \/ ~isfinite(v) THEN PInf
    ELSE Fin(RaizInteira(100 * 100 * (u.v * u.v + v.v * v.v)))

\* _extrair_dados_krigagem
extrair_dados_krigagem(dados_hora_krigagem, ponto) ==
    LET medias == [variavel \in Elementos(VARIAVEIS_AMBIENTAIS) |->
                      dados_hora_krigagem[variavel].media[ponto]]
    IN  [medias |-> Atribuir(medias, "vento_velocidade",
                             VelocidadeMedia(medias["vento_u"], medias["vento_v"])),
         desvios |-> [variavel \in Elementos(VARIAVEIS_AMBIENTAIS) |->
                         RaizFloat(dados_hora_krigagem[variavel].variancia[ponto])]]

\* executar_simulacao as _executar_simulacoes sees it: ValueError from
\* _validar_dados_entrada, or a result, whose iterations all failed or all
\* passed; the temperatures of a result are kept by two of them
SimulacoesPossiveis(medias_ambientais, desvios_ambientais) ==
    IF ~validar_dados_entrada(medias_ambientais, desvios_ambientais)
    THEN {[raised |-> TRUE, resultado |-> SemResultado]}
    ELSE {[raised |-> FALSE,
           resultado |->
              [SemResultado EXCEPT
                  !.temperaturas = temperaturas,
                  !.estatisticas = calcular_estatisticas(temperaturas),
                  !.iteracoes_validas =
                      IF temperaturas = <<>> THEN 0 ELSE NUM_ITERACOES_MC,
                  !.iteracoes_com_erro =
                      IF temperaturas = <<>> THEN NUM_ITERACOES_MC ELSE 0,
                  !.taxa_sucesso =
                      Quociente(IF temperaturas = <<>> THEN 0 ELSE NUM_ITERACOES_MC,
                                NUM_ITERACOES_MC)]] :
            temperaturas \in
                {<<>>, <<medias_ambientais["temperatura_ar"].v + 20,
                         medias_ambientais["temperatura_ar"].v + 60>>}}

\* the dictionary appended to resultados_finais
EntradaResultado(hora, ponto, azimute, medias, resultado_mc) ==
    [hora |-> hora, ponto_id |-> ponto, azimute |-> azimute,
     corrente_operacao |-> CORRENTE_PADRAO,
     temperatura_ar_media |-> medias["temperatura_ar"],
     radiacao_media |-> medias["radiacao_global"],
     vento_u_media |-> medias["vento_u"],
     vento_v_media |-> medias["vento_v"],
     temperatura_condutor_media |-> resultado_mc.estatisticas.media,
     temperatura_condutor_p90 |-> resultado_mc.estatisticas.percentil_90,
     temperatura_condutor_p95 |-> resultado_mc.estatisticas.percentil_95,
     risco_termico |->
         calcular_risco_termico(
             [i \in DOMAIN resultado_mc.temperaturas |-> Fin(resultado_mc.temperaturas[i])],
             Fin(TEMPERATURA_MAX_PROJETO)),
     ampacidade_calculada |->
         calcular_ampacidade(condutor, TEMPERATURA_MAX_PROJETO,
                             medias["radiacao_global"].v, azimute,
                             medias["vento_velocidade"].v, 0,
                             medias["temperatura_ar"].v),
     iteracoes_validas |-> resultado_mc.iteracoes_validas,
     taxa_sucesso_mc |-> resultado_mc.taxa_sucesso]

\* the analyser before any call
MainParado ==
    /\ cenarioMain = CenarioCompleto
    /\ etapas = <<>>
    /\ pontos_linha = <<>>
    /\ self_resultados_krigagem = DictVazio
    /\ idx_ponto = 1
    /\ idx_hora = 1
    /\ combinacoes_processadas = 0
    /\ resultados_finais = <<>>
    /\ arquivos_salvos = {}
    /\ pcMain = "parado"

\* executar_analise_completa entered
InitMain ==
    /\ cenarioMain \in CenariosMain
    /\ etapas = <<>>
    /\ pontos_linha = <<>>
    /\ self_resultados_krigagem = DictVazio
    /\ idx_ponto = 1
    /\ idx_hora = 1
    /\ combinacoes_processadas = 0
    /\ resultados_finais = <<>>
    /\ arquivos_salvos = {}
    /\ pcMain = "etapa1"

\* step 1, _validar_configuracao: FileNotFoundError ends the run with False
Main_ValidarConfiguracao ==
    /\ pcMain = "etapa1"
    /\ etapas' = Append(etapas, Etapa("validar_configuracao"))
    /\ pcMain' = IF cenarioMain.config_ok THEN "etapa2" ELSE "False"
    /\ UNCHANGED <<cenarioMain, pontos_linha, self_resultados_krigagem, idx_ponto,
                   idx_hora, combinacoes_processadas, resultados_finais,
                   arquivos_salvos>>
    /\ UNCHANGED <<varsKrig, foraMain>>

\* step 2, _carregar_dados: an exception of a loader is raised again and
\* ends the run with False
Main_CarregarDados ==
    /\ pcMain = "etapa2"
    /\ LET carga == carregar_todos_dados(cenarioMain)
       IN  /\ etapas' = etapas \o carga.etapas
           /\ pcMain' = IF carga.raised THEN "False" ELSE "etapa3"
    /\ UNCHANGED <<cenarioMain, pontos_linha, self_resultados_krigagem, idx_ponto,
                   idx_hora, combinacoes_processadas, resultados_finais,
                   arquivos_salvos>>
    /\ UNCHANGED <<varsKrig, foraMain>>

\* step 3, _processar_dados_geoespaciais: discretizar_linha
Main_ProcessarGeo ==
    /\ pcMain = "etapa3"
    /\ etapas' = Append(etapas, Etapa("discretizar_linha"))
    /\ pontos_linha' = cenarioMain.azimutes
    /\ pcMain' = "etapa4"
    /\ UNCHANGED <<cenarioMain, self_resultados_krigagem, idx_ponto, idx_hora,
                   combinacoes_processadas, resultados_finais, arquivos_salvos>>
    /\ UNCHANGED <<varsKrig, foraMain>>

\* step 4, _executar_krigagem calls executar_krigagem_horaria
Main_ExecutarKrigagem ==
    /\ pcMain = "etapa4"
    /\ etapas' = Append(etapas, Etapa("executar_krigagem_horaria"))
    /\ dados_sincronizados' = cenarioMain.dados
    /\ num_pontos' = Len(pontos_linha)
    /\ variaveis_ambientais' = VARIAVEIS_AMBIENTAIS
    /\ horas_unicas' = HorasUnicas(cenarioMain.dados)
    /\ indiceHora' = 1
    /\ indiceVariavel' = 1
    /\ resultados_hora' = DictVazio
    /\ resultados_krigagem' = DictVazio
    /\ tentativasKrig' = {}
    /\ melhor_modelo' = "nenhum"
    /\ pcKrig' = "horas"
    /\ pcMain' = "krigagem"
    /\ UNCHANGED <<cenarioMain, pontos_linha, self_resultados_krigagem, idx_ponto,
                   idx_hora, combinacoes_processadas, resultados_finais,
                   arquivos_salvos>>
    /\ UNCHANGED foraMain

\* executar_krigagem_horaria runs
Main_Krigagem ==
    /\ pcMain = "krigagem"
    /\ NextKrig

\* variant of Main_KrigagemRetorna: executar_krigagem_horaria returns from
\* inside the loop over the variables, with the timestamp as far as built
Main_KrigagemRetornaCedo ==
    /\ pcMain = "krigagem"
    /\ pcKrig = "variaveis"
    /\ self_resultados_krigagem' =
          Atribuir(resultados_krigagem, HoraAtual, resultados_hora)
    /\ pcMain' = "etapa5"
    /\ UNCHANGED <<cenarioMain, etapas, pontos_linha, idx_ponto, idx_hora,
                   combinacoes_processadas, resultados_finais, arquivos_salvos>>
    /\ UNCHANGED <<varsKrig, foraMain>>

\* executar_krigagem_horaria returns: self.resultados_krigagem is set and
\* validar_resultados_krigagem reads it
Main_KrigagemRetorna ==
    /\ pcMain = "krigagem"
    /\ pcKrig = "fim"
    /\ self_resultados_krigagem' = resultados_krigagem
    /\ pcMain' = IF cenarioMain.salvar_intermediarios THEN "intermediarios"
                 ELSE "etapa5"
    /\ UNCHANGED <<cenarioMain, etapas, pontos_linha, idx_ponto, idx_hora,
                   combinacoes_processadas, resultados_finais, arquivos_salvos>>
    /\ UNCHANGED <<varsKrig, foraMain>>

\* _salvar_dados_intermediarios: an exception is logged and dropped
Main_SalvarIntermediarios ==
    /\ pcMain = "intermediarios"
    /\ etapas' = Append(etapas, Etapa("salvar_dados_intermediarios"))
    /\ arquivos_salvos' =
          IF cenarioMain.gravacao_ok
          THEN arquivos_salvos \cup {"pontos_linha.csv", "estatisticas_krigagem.csv"}
          ELSE arquivos_salvos
    /\ pcMain' = "etapa5"
    /\ UNCHANGED <<cenarioMain, pontos_linha, self_resultados_krigagem, idx_ponto,
                   idx_hora, combinacoes_processadas, resultados_finais>>
    /\ UNCHANGED <<varsKrig, foraMain>>

\* step 5, _inicializar_modelos, and the entry of _executar_simulacoes
Main_InicializarModelos ==
    /\ pcMain = "etapa5"
    /\ etapas' = Append(etapas, Etapa("inicializar_modelos"))
    /\ idx_ponto' = 1
    /\ idx_hora' = 1
    /\ combinacoes_processadas' = 0
    /\ pcMain' = "etapa6"
    /\ UNCHANGED <<cenarioMain, pontos_linha, self_resultados_krigagem,
                   resultados_finais, arquivos_salvos>>
    /\ UNCHANGED <<varsKrig, foraMain>>

\* the timestamps in the order of self.resultados_krigagem.items()
HorasKrigadas == Ordenar(DOMAIN self_resultados_krigagem)

\* step 6, one turn of the inner loop of _executar_simulacoes: the cell
\* (idx_ponto, hora)
Main_SimularCelula ==
    /\ pcMain = "etapa6"
    /\ idx_ponto <= Len(pontos_linha)
    /\ idx_hora <= Len(HorasKrigadas)
    /\ LET hora == HorasKrigadas[idx_hora]
           dados_hora_krigagem == self_resultados_krigagem[hora]
       IN  IF ~verificar_dados_validos(dados_hora_krigagem, idx_ponto)
           THEN /\ etapas' = Append(etapas, Celula(idx_ponto, hora, "sem_dados"))
                /\ UNCHANGED resultados_finais
           ELSE LET extraidos == extrair_dados_krigagem(dados_hora_krigagem, idx_ponto)
                IN  \E mc \in SimulacoesPossiveis(extraidos.medias, extraidos.desvios) :
                       IF mc.raised
                       THEN /\ etapas' = Append(etapas, Celula(idx_ponto, hora, "excecao"))
                            /\ UNCHANGED resultados_finais
                       ELSE IF mc.resultado.iteracoes_validas > 0
                       THEN /\ etapas' = Append(etapas, Celula(idx_ponto, hora, "validas"))
                            /\ resultados_finais' =
                                  Append(resultados_finais,
                                         EntradaResultado(hora, idx_ponto,
                                                          pontos_linha[idx_ponto],
                                                          extraidos.medias, mc.resultado))
                       ELSE /\ etapas' = Append(etapas,
                                                Celula(idx_ponto, hora, "sem_validas"))
                            /\ UNCHANGED resultados_finais
    /\ combinacoes_processadas' = combinacoes_processadas + 1
    /\ IF idx_hora < Len(HorasKrigadas)
       THEN idx_hora' = idx_hora + 1 /\ UNCHANGED idx_ponto
       ELSE idx_hora' = 1 /\ idx_ponto' = idx_ponto + 1
    /\ UNCHANGED <<cenarioMain, pontos_linha, self_resultados_krigagem,
                   arquivos_salvos, pcMain>>
    /\ UNCHANGED <<varsKrig, foraMain>>

\* step 7 after the loops: _salvar_resultados_finais returns at once when
\* there is no result, raises when the files cannot be written; then
\* _gerar_resumo_final and return True
Main_SalvarResultados ==
    /\ pcMain = "etapa6"
    /\ idx_ponto > Len(pontos_linha) \/ Len(HorasKrigadas) = 0
    /\ etapas' = Append(etapas, Etapa("salvar_resultados_finais"))
    /\ IF resultados_finais = <<>>
       THEN pcMain' = "True" /\ UNCHANGED arquivos_salvos
       ELSE IF cenarioMain.gravacao_ok
       THEN /\ arquivos_salvos' = arquivos_salvos \cup
                  {"resultado.csv", "resumo_estatistico.csv", "metadata_analise.txt"}
            /\ pcMain' = "True"
       ELSE pcMain' = "False" /\ UNCHANGED arquivos_salvos
    /\ UNCHANGED <<cenarioMain, pontos_linha, self_resultados_krigagem, idx_ponto,
                   idx_hora, combinacoes_processadas, resultados_finais>>
    /\ UNCHANGED <<varsKrig, foraMain>>

NextMain ==
    \/ Main_ValidarConfiguracao
    \/ Main_CarregarDados
    \/ Main_ProcessarGeo
    \/ Main_ExecutarKrigagem
    \/ Main_Krigagem
    \/ Main_KrigagemRetorna
    \/ Main_SalvarIntermediarios
    \/ Main_InicializarModelos
    \/ Main_SimularCelula
    \/ Main_SalvarResultados

-----------------------------------------------------------------------------
(* Claims on the thermal model *)

\* C3: for a conductor with R75 >= R25, calcular_resistencia_ac returns
\* exactly R25 at every temperature <= 25, exactly R75 at every temperature
\* >= 75, the linear interpolation strictly inside (25, 75), and is
\* non-decreasing in temperature, never leaving [R25, R75].
C3_Resistencia ==
    condutor.resistencia_ac_75 >= condutor.resistencia_ac_25 =>
        /\ \A i \in DOMAIN resistencias :
              LET e == resistencias[i]
                  r25 == condutor.resistencia_ac_25
                  r75 == condutor.resistencia_ac_75
              IN  /\ e.T <= 25 => e.R = r25
                  /\ e.T >= 75 => e.R = r75
                  /\ (25 < e.T /\ e.T < 75) =>
                        50 * (e.R - r25) = (e.T - 25) * (r75 - r25)
                  /\ r25 <= e.R /\ e.R <= r75
        /\ \A i, j \in DOMAIN resistencias :
              resistencias[i].T <= resistencias[j].T =>
                  resistencias[i].R <= resistencias[j].R

\* C3 witness: one call inside the interpolation range and one above 75
C3_Witness ==
    /\ condutor = CondutorDrake
    /\ Len(resistencias) = 2
    /\ resistencias[1] = [T |-> 50, R |-> 828]
    /\ resistencias[2] = [T |-> 250, R |-> 928]

Resolvido == pcTermico = "resolvido"

\* C5: resolver_temperatura_condutor never propagates an exception; when the
\* evaluation of the bracket ends or the root finder (brentq or fsolve)
\* fails, it returns exactly temperatura_ar + 50.
C5_SemExcecao ==
    Resolvido =>
        /\ ~solucao.excecao
        /\ solucao.recuo => solucao.T = Fin(cenario.temperatura_ar + 50)

\* C5 witness: the heat balance is +inf at both bracket ends (infinite
\* angle), brentq has raised and the fallback has been returned
C5_Witness ==
    /\ Resolvido
    /\ solucao.metodo = "brentq"
    /\ cenario.angulo_vento = PInf
    /\ solucao.recuo
    /\ solucao.T = Fin(cenario.temperatura_ar + 50)

FCenario ==
    FuncaoObjetivo(condutor, cenario.corrente, cenario.radiacao_solar,
                   cenario.azimute_linha, cenario.velocidade_vento,
                   cenario.angulo_vento, cenario.temperatura_ar)

BalancoFinito == isfinite(cenario.radiacao_solar) /\ isfinite(cenario.angulo_vento)

TemRaizFisica ==
    Raizes(FCenario, cenario.temperatura_ar - 10, cenario.temperatura_ar + 300) # {}

\* C6: when the heat balance is finite and has a root anywhere in
\* [T_air - 10, T_air + 300], resolver_temperatura_condutor (brentq) returns
\* a value within the solver tolerance of a root and not the fallback.
C6_RaizEncontrada ==
    (Resolvido /\ solucao.metodo = "brentq" /\ BalancoFinito /\ TemRaizFisica) =>
        /\ ~solucao.recuo
        /\ isfinite(solucao.T)
        /\ RaizEm(FCenario, cenario.temperatura_ar - 10,
                  cenario.temperatura_ar + 300, solucao.T.v)

Ampacidade == pcTermico = "ampacidade"

\* C8: calcular_ampacidade returns 0 exactly when convective + radiative
\* cooling at the maximum temperature is <= the solar gain, and otherwise
\* the strictly positive current I with I^2 * resistance_ac(max_T) =
\* convective + radiative - solar, so that the heat balance at (max_T, I)
\* with the same environmental inputs is zero.
C8_Ampacidade ==
    Ampacidade =>
        LET tmax == ampacidade.temperatura_maxima
            I == ampacidade.I
            resfriamento ==
                calcular_resfriamento_convectivo(
                    condutor, cenario.velocidade_vento, cenario.angulo_vento.v,
                    cenario.temperatura_ar, tmax)
                + calcular_resfriamento_radiativo(condutor, cenario.temperatura_ar, tmax)
            solar == calcular_aquecimento_solar(condutor, cenario.radiacao_solar.v,
                                                cenario.azimute_linha)
        IN  /\ I.num >= 0 /\ I.den > 0
            /\ (I.num = 0) <=> (resfriamento <= solar)
            /\ I.num > 0 =>
                  /\ I.num * calcular_resistencia_ac(condutor, tmax)
                        = (resfriamento - solar) * I.den
                  /\ equacao_balanco_termico(
                         condutor, tmax, I, cenario.radiacao_solar,
                         cenario.azimute_linha, cenario.velocidade_vento,
                         cenario.angulo_vento, cenario.temperatura_ar) = Fin(0)

\* C8 witness: a positive ampacity above 75 degC, where the resistance is R75
C8_Witness ==
    /\ Ampacidade
    /\ ampacidade.temperatura_maxima = 100
    /\ ampacidade.I.num > 0
    /\ ampacidade.I.den = condutor.resistencia_ac_75

\* the other case of C8: no positive current is safe and 0 is returned
C8_WitnessZero ==
    /\ Ampacidade
    /\ ampacidade.I = Corrente(0)

-----------------------------------------------------------------------------
(* validators.py : validar_parametros_condutor, and the way of the parameters
   into CigreModeloTermico.  Units: diametro in 1e-4 m, the resistances in
   1e-7 ohm/m, emissividade and absortividade in 1e-2. *)

PARAMETROS_CABO_OBRIGATORIOS ==
    <<"diametro", "resistencia_ac_25", "resistencia_ac_75", "emissividade", "absortividade">>

\* a key the dict does not have
Ausente == [k |-> "ausente", v |-> 0]

\* the limits written in validar_parametros_condutor
DiametroMinimo == 50
DiametroMaximo == 1000
EmissividadeMinima == 10
EmissividadeMaxima == 100

\* x <= y for floats: False as soon as one side is NaN
FloatLE(x, y) == ~isnan(x) /\ ~isnan(y) /\ ~FloatGT(x, y)

Erro(param, tipo) == [param |-> param, tipo |-> tipo]

\* the loop over the required parameters
RECURSIVE ErrosObrigatorios(_, _)
ErrosObrigatorios(obrigatorios, parametros) ==
    IF obrigatorios = <<>> THEN <<>>
    ELSE LET param == Head(obrigatorios)
             valor == parametros[param]
             resto == ErrosObrigatorios(Tail(obrigatorios), parametros)
         IN  IF valor = Ausente THEN <<Erro(param, "ausente")>> \o resto
             ELSE IF FloatLE(valor, Fin(0)) THEN <<Erro(param, "nao_positivo")>> \o resto
             ELSE resto

\* a variant: only the upper limit is checked
ErrosSoMaximo(param, parametros, minimo, maximo) ==
    IF parametros[param] # Ausente /\ FloatGT(parametros[param], Fin(maximo))
    THEN <<Erro(param, "fora_da_faixa")>>
    ELSE <<>>

\* the check of a range: if v < minimo or v > maximo
ErrosFaixa(param, parametros, minimo, maximo) ==
    IF parametros[param] # Ausente
       /\ (FloatLT(parametros[param], Fin(minimo)) \/ FloatGT(parametros[param], Fin(maximo)))
    THEN <<Erro(param, "fora_da_faixa")>>
    ELSE <<>>

ErrosResistencias(parametros) ==
    IF parametros.resistencia_ac_25 # Ausente /\ parametros.resistencia_ac_75 # Ausente
       /\ FloatLE(parametros.resistencia_ac_75, parametros.resistencia_ac_25)
    THEN <<Erro("resistencia_ac_75", "nao_maior")>>
    ELSE <<>>

\* returns (len(erros) == 0, erros)
validar_parametros_condutor(parametros) ==
    LET erros_ == ErrosObrigatorios(PARAMETROS_CABO_OBRIGATORIOS, parametros)
                  \o ErrosFaixa("diametro", parametros, DiametroMinimo, DiametroMaximo)
                  \o ErrosResistencias(parametros)
                  \o ErrosFaixa("emissividade", parametros, EmissividadeMinima, EmissividadeMaxima)
                  \o ErrosFaixa("absortividade", parametros, EmissividadeMinima, EmissividadeMaxima)
    IN  [eh_valido |-> Len(erros_) = 0, erros |-> erros_]

\* the parameter files tried: every value on, next to and far from the limits
ParametrosPossiveis ==
    [diametro : {Ausente, NaN, Fin(-100), Fin(0), Fin(49), Fin(50), Fin(281), Fin(1000), Fin(1001)},
     resistencia_ac_25 : {Ausente, NaN, Fin(0), Fin(728), Fin(909)},
     resistencia_ac_75 : {Ausente, Fin(-1), Fin(728), Fin(909), PInf},
     emissividade : {Ausente, NaN, Fin(0), Fin(5), Fin(10), Fin(80), Fin(100), Fin(150)},
     absortividade : {Ausente, Fin(9), Fin(10), Fin(80), Fin(101)}]

SemParametros ==
    [diametro |-> Ausente, resistencia_ac_25 |-> Ausente, resistencia_ac_75 |-> Ausente,
     emissividade |-> Ausente, absortividade |-> Ausente]

ValParado ==
    /\ parametrosArquivo = SemParametros
    /\ eh_valido = FALSE
    /\ erros = <<>>
    /\ parametros_cabo = SemParametros
    /\ modelo_termico = SemParametros
    /\ pcVal = "parado"

InitVal ==
    /\ parametrosArquivo \in ParametrosPossiveis
    /\ eh_valido = FALSE
    /\ erros = <<>>
    /\ parametros_cabo = SemParametros
    /\ modelo_termico = SemParametros
    /\ pcVal = "carregar"

\* DataLoader.carregar_parametros_cabo, reached through carregar_todos_dados
\* and _carregar_dados: ValueError unless the validator accepts
Val_CarregarParametros ==
    /\ pcVal = "carregar"
    /\ LET r == validar_parametros_condutor(parametrosArquivo) IN
          /\ eh_valido' = r.eh_valido
          /\ erros' = r.erros
          /\ IF r.eh_valido
             THEN parametros_cabo' = parametrosArquivo /\ pcVal' = "carregado"
             ELSE parametros_cabo' = parametros_cabo /\ pcVal' = "ValueError"
    /\ UNCHANGED <<parametrosArquivo, modelo_termico>>
    /\ UNCHANGED foraVal

\* _inicializar_modelos: CigreModeloTermico(self.parametros_cabo)
Val_InicializarModelos ==
    /\ pcVal = "carregado"
    /\ modelo_termico' = parametros_cabo
    /\ pcVal' = "modelo"
    /\ UNCHANGED <<parametrosArquivo, eh_valido, erros, parametros_cabo>>
    /\ UNCHANGED foraVal

NextVal == Val_CarregarParametros \/ Val_InicializarModelos

-----------------------------------------------------------------------------
(* risk_analysis.py : calcular_temperatura_confianca,                       *)
(* calcular_intervalo_confianca, calcular_vida_util_estimada                *)

\* the finite values of the array, sorted as np.percentile sorts them
FinitosOrdenados(temperaturas) ==
    LET validas == FiltrarFinitos(temperaturas) IN
    SortSeq([i \in DOMAIN validas |-> validas[i].v], LAMBDA a, b : a < b)

\* np.percentile(a, q / 10) (linear interpolation), in thousandths, a sorted
PercentilDecimos(ordenadas, q) ==
    LET n == Len(ordenadas)
        h == (n - 1) * q
        lo == h \div 1000
        fr == h % 1000
    IN  IF fr = 0 THEN 1000 * ordenadas[lo + 1]
        ELSE 1000 * ordenadas[lo + 1] + fr * (ordenadas[lo + 2] - ordenadas[lo + 1])

\* the result in hundredths of a degree
calcular_temperatura_confianca(temperaturas, percentil) ==
    IF Len(temperaturas) = 0 THEN NaN
    ELSE LET validas == FinitosOrdenados(temperaturas) IN
         IF Len(validas) = 0 THEN NaN
         ELSE Fin(Percentil(validas, percentil))

\* the percentiles (alpha / 2) * 100 and (1 - alpha / 2) * 100 for the default
\* nivel_confianca = 0.95, in tenths of a percent
PInferior == 25
PSuperior == 975

IntervaloNaN == [limite_inferior |-> NaN, limite_superior |-> NaN]

\* a variant: an interval is computed from a single finite value
calcular_intervalo_de_um(temperaturas) ==
    IF Len(temperaturas) = 0 THEN IntervaloNaN
    ELSE LET validas == FinitosOrdenados(temperaturas) IN
         IF Len(validas) < 1 THEN IntervaloNaN
         ELSE [limite_inferior |-> Fin(PercentilDecimos(validas, PInferior)),
               limite_superior |-> Fin(PercentilDecimos(validas, PSuperior))]

\* the limits in thousandths of a degree
calcular_intervalo_confianca(temperaturas) ==
    IF Len(temperaturas) = 0 THEN IntervaloNaN
    ELSE LET validas == FinitosOrdenados(temperaturas) IN
         IF Len(validas) < 2 THEN IntervaloNaN
         ELSE [limite_inferior |-> Fin(PercentilDecimos(validas, PInferior)),
               limite_superior |-> Fin(PercentilDecimos(validas, PSuperior))]

VidaUtilNaN == [fator_reducao |-> "nan", vida_util_relativa |-> "nan"]

\* fator_reducao = exp(fator_arrhenius * (1 / T_nominal_K - 1 / T_operacao_K))
\* is kept by its place relative to 1, which is that of the mean of the finite
\* values relative to temperatura_nominal; vida_util_relativa is its inverse
calcular_vida_util_estimada(temperaturas, temperatura_nominal) ==
    IF Len(temperaturas) = 0 THEN VidaUtilNaN
    ELSE LET validas == FinitosOrdenados(temperaturas) IN
         IF Len(validas) = 0 THEN VidaUtilNaN
         ELSE LET soma == Soma(validas)
                  n == Len(validas)
              IN  IF soma > n * temperatura_nominal
                    THEN [fator_reducao |-> "maior_que_1", vida_util_relativa |-> "menor_que_1"]
                  ELSE IF soma = n * temperatura_nominal
                    THEN [fator_reducao |-> "1", vida_util_relativa |-> "1"]
                  ELSE [fator_reducao |-> "menor_que_1", vida_util_relativa |-> "maior_que_1"]

RedParado ==
    /\ distribuicaoRed = <<>>
    /\ temp_confianca = NaN
    /\ intervalo_confianca = IntervaloNaN
    /\ vida_util = VidaUtilNaN
    /\ chamadasRed = {}

InitRed ==
    /\ distribuicaoRed \in SeqsAte(ValoresTemperatura, MaxDist)
    /\ temp_confianca = NaN
    /\ intervalo_confianca = IntervaloNaN
    /\ vida_util = VidaUtilNaN
    /\ chamadasRed = {}

Red_TemperaturaConfianca ==
    /\ "calcular_temperatura_confianca" \notin chamadasRed
    /\ temp_confianca' = calcular_temperatura_confianca(distribuicaoRed, PERCENTIL_CONFIANCA)
    /\ chamadasRed' = chamadasRed \cup {"calcular_temperatura_confianca"}
    /\ UNCHANGED <<distribuicaoRed, intervalo_confianca, vida_util>>
    /\ UNCHANGED foraRed

Red_IntervaloConfianca ==
    /\ "calcular_intervalo_confianca" \notin chamadasRed
    /\ intervalo_confianca' = calcular_intervalo_confianca(distribuicaoRed)
    /\ chamadasRed' = chamadasRed \cup {"calcular_intervalo_confianca"}
    /\ UNCHANGED <<distribuicaoRed, temp_confianca, vida_util>>
    /\ UNCHANGED foraRed

\* temperatura_nominal as gerar_relatorio_risco passes it
TemperaturaNominal == 75

Red_VidaUtil ==
    /\ "calcular_vida_util_estimada" \notin chamadasRed
    /\ vida_util' = calcular_vida_util_estimada(distribuicaoRed, TemperaturaNominal)
    /\ chamadasRed' = chamadasRed \cup {"calcular_vida_util_estimada"}
    /\ UNCHANGED <<distribuicaoRed, temp_confianca, intervalo_confianca>>
    /\ UNCHANGED foraRed

NextRed == Red_TemperaturaConfianca \/ Red_IntervaloConfianca \/ Red_VidaUtil

-----------------------------------------------------------------------------
(* simulation.py : the wind of one iteration, from the sampled components   *)
(* to the attack angle handed to the solver                                 *)

\* _reconstruir_vento for a float v = v / 100 + residue, the residue being
\* nothing, or a negative or positive number too small for the grid.  With
\* u > 0 and v a negative number of that size, np.degrees(np.arctan2(v, u))
\* is a negative angle smaller than half the spacing of the floats at 360,
\* 'if direcao < 0' holds and 'direcao += 360' rounds to 360.0.
reconstruir_vento_residuo(u, v, residuo) ==
    LET info == reconstruir_vento(u, v) IN
    IF residuo = "negativo" /\ v = 0 /\ u > 0
    THEN [info EXCEPT !.direcao = 360]
    ELSE info

\* the clamped components of a sample, in 1e-2 m/s
ComponentesPossiveis ==
    [u : {-100 * VENTO_VEL_MAX, -300, -100, 0, 100, 300, 100 * VENTO_VEL_MAX},
     v : {-100 * VENTO_VEL_MAX, -300, -100, 0, 100, 300, 100 * VENTO_VEL_MAX},
     residuo : {"nenhum", "negativo", "positivo"}]

\* the wind turned by 180 degrees
Oposto(c) ==
    [u |-> -c.u, v |-> -c.v,
     residuo |-> CASE c.residuo = "negativo" -> "positivo"
                   [] c.residuo = "positivo" -> "negativo"
                   [] OTHER -> "nenhum"]

AzimutesPossiveis == {15 * k : k \in 0..24} \cup {7, 93, 181, 271, 359}

SemVento == [velocidade |-> 0, direcao |-> 0]

VentoParado ==
    /\ componentesVento = [u |-> 0, v |-> 0, residuo |-> "nenhum"]
    /\ azimuteVento = 0
    /\ vento_reconstruido = SemVento
    /\ vento_oposto = SemVento
    /\ angulo_ataque = 0
    /\ angulo_oposto = 0
    /\ pcVento = "parado"

InitVento ==
    /\ componentesVento \in ComponentesPossiveis
    /\ azimuteVento \in AzimutesPossiveis
    /\ vento_reconstruido = SemVento
    /\ vento_oposto = SemVento
    /\ angulo_ataque = 0
    /\ angulo_oposto = 0
    /\ pcVento = "amostrado"

\* simulation.py:127-130  vento_info = self._reconstruir_vento(...)
Vento_Reconstruir ==
    /\ pcVento = "amostrado"
    /\ vento_reconstruido' = reconstruir_vento_residuo(componentesVento.u, componentesVento.v,
                                               componentesVento.residuo)
    /\ LET o == Oposto(componentesVento) IN
          vento_oposto' = reconstruir_vento_residuo(o.u, o.v, o.residuo)
    /\ pcVento' = "reconstruido"
    /\ UNCHANGED <<componentesVento, azimuteVento, angulo_ataque, angulo_oposto>>
    /\ UNCHANGED foraVento

\* simulation.py:133  angulo_vento = self._calcular_angulo_vento(...)
Vento_CalcularAngulo ==
    /\ pcVento = "reconstruido"
    /\ angulo_ataque' = calcular_angulo_vento(vento_reconstruido.direcao, azimuteVento)
    /\ angulo_oposto' = calcular_angulo_vento(vento_oposto.direcao, azimuteVento)
    /\ pcVento' = "angulo"
    /\ UNCHANGED <<componentesVento, azimuteVento, vento_reconstruido, vento_oposto>>
    /\ UNCHANGED foraVento

NextVento == Vento_Reconstruir \/ Vento_CalcularAngulo

-----------------------------------------------------------------------------
(* geoprocessing.py : _ajustar_variograma_automatico with the evaluation of *)
(* each candidate.  rmse is a float; the variances are whole numbers; the   *)
(* score is kept in tenths.                                                 *)

\* what the try block of one candidate comes to: an exception ("excecao"),
\* a NaN among the predictions or their variances ("nan"), or the rmse and
\* the mean variance of the validation points ("avaliado")
Candidato(desfecho, rmse, variancia_media) ==
    [desfecho |-> desfecho, rmse |-> rmse, variancia_media |-> variancia_media]

\* min(variancia_media / variancia_dados, 10.0); 0 / 0 is NaN and the
\* builtin min keeps a NaN first argument
PenalidadeVariancia(variancia_media, variancia_dados) ==
    IF variancia_dados = 0
    THEN (IF variancia_media = 0 THEN NaN ELSE Fin(10))
    ELSE Fin(Min(variancia_media \div variancia_dados, 10))

\* score_combinado in tenths; NaN stands also for a candidate without score
Pontuacao(c, variavel, variancia_dados) ==
    IF c.desfecho # "avaliado" THEN NaN
    ELSE IF variavel = "radiacao_global"
    THEN LET p == PenalidadeVariancia(c.variancia_media, variancia_dados)
         IN  IF isnan(p) THEN NaN
             ELSE IF c.rmse = PInf THEN PInf
             ELSE Fin(c.rmse.v * (10 + p.v))
    ELSE IF c.rmse = PInf THEN PInf ELSE Fin(10 * c.rmse.v)

\* the outcomes of a candidate: for radiation the mean variance matters
CandidatosPossiveis(variavel) ==
    {Candidato("excecao", NaN, 0), Candidato("nan", NaN, 0)}
    \cup (IF variavel = "radiacao_global"
          THEN {Candidato("avaliado", Fin(r), vm) : r \in {1, 2}, vm \in {0, 9, 180}}
          ELSE {Candidato("avaliado", r, 4) : r \in {Fin(1), Fin(2), PInf}})

EntradasVario ==
    UNION {[n_estacoes : IF poucas THEN {2, 3} ELSE {4, 5, 10},
            variavel : {variavel},
            variancia_dados : IF variavel = "radiacao_global" /\ ~poucas THEN {0, 9} ELSE {9},
            candidatos : IF poucas
                         THEN {[m \in Elementos(modelos_testar(variavel)) |->
                                    Candidato("excecao", NaN, 0)]}
                         ELSE [Elementos(modelos_testar(variavel)) ->
                                    CandidatosPossiveis(variavel)]] :
           variavel \in {"radiacao_global", "temperatura_ar"}, poucas \in BOOLEAN}

VarioParado ==
    /\ entradaVario = [n_estacoes |-> 0, variavel |-> "nenhuma", variancia_dados |-> 0,
                       candidatos |-> <<>>]
    /\ n_validacao = 0
    /\ modeloAjustado = "nenhum"
    /\ pcVario = "parado"

InitVario ==
    /\ entradaVario \in EntradasVario
    /\ n_validacao = 0
    /\ modeloAjustado = "nenhum"
    /\ pcVario = "inicio"

\* the early return for fewer than 4 stations
Vario_PoucasEstacoes ==
    /\ pcVario = "inicio"
    /\ entradaVario.n_estacoes < 4
    /\ modeloAjustado' = ajustar_variograma_automatico(
                             entradaVario.n_estacoes, entradaVario.variavel,
                             [m \in DOMAIN entradaVario.candidatos |-> NaN])
    /\ pcVario' = "fim"
    /\ UNCHANGED <<entradaVario, n_validacao>>
    /\ UNCHANGED foraVario

\* the split into training and validation stations and the loop
Vario_Ajustar ==
    /\ pcVario = "inicio"
    /\ entradaVario.n_estacoes >= 4
    /\ n_validacao' = entradaVario.n_estacoes - Max(2, (8 * entradaVario.n_estacoes) \div 10)
    /\ modeloAjustado' = ajustar_variograma_automatico(
                             entradaVario.n_estacoes, entradaVario.variavel,
                             [m \in DOMAIN entradaVario.candidatos |->
                                 Pontuacao(entradaVario.candidatos[m], entradaVario.variavel,
                                           entradaVario.variancia_dados)])
    /\ pcVario' = "fim"
    /\ UNCHANGED entradaVario
    /\ UNCHANGED foraVario

NextVario == Vario_PoucasEstacoes \/ Vario_Ajustar

-----------------------------------------------------------------------------
(* geoprocessing.py : validar_resultados_krigagem.  The minimum, maximum    *)
(* and mean variance it also collects per variable are not kept.            *)

\* the kriging result of one timestamp over two points: without NaN, or with
\* a NaN where 'onde' says
ResultadoHoraQual(com_nan, onde) ==
    [v \in Elementos(VARIAVEIS_AMBIENTAIS) |->
        [media |-> IF com_nan /\ (onde = "tudo" \/ (onde = "media_vento_v" /\ v = "vento_v"))
                   THEN <<Fin(ValorPlausivel(v)), NaN>>
                   ELSE IF com_nan /\ onde = "media_temperatura" /\ v = "temperatura_ar"
                   THEN <<NaN, NaN>>
                   ELSE <<Fin(ValorPlausivel(v)), Fin(ValorPlausivel(v))>>,
         variancia |-> IF com_nan /\ onde \in {"tudo", "so_variancia"}
                       THEN <<NaN, NaN>>
                       ELSE <<Fin(4), Fin(4)>>]]

\* resultados_krigagem: 'total' timestamps, 'marcadas' of them marked, the
\* first or the last ones
ResultadosQual(e) ==
    [h \in 1..e.total |->
        ResultadoHoraQual(IF e.primeiras THEN h <= e.marcadas
                          ELSE h > e.total - e.marcadas, e.onde)]

TotaisDeHoras == {0, 1, 2, 10, 20, 21, 40}

EntradasQual ==
    {e \in [total : TotaisDeHoras, marcadas : {0, 1, 2, 3, 4, 5, 40}, primeiras : BOOLEAN,
            onde : {"media_temperatura", "media_vento_v", "tudo", "so_variancia"}] :
        e.marcadas <= e.total}

\* np.sum(np.isnan(media))
ContarNaN(media) == Cardinality({i \in DOMAIN media : isnan(media[i])})

SemEstatisticas ==
    [raised |-> FALSE, total_horas |-> 0, total_pontos |-> 0, horas_com_erro |-> 0,
     qualidade_geral |-> "nenhuma"]

QualParado ==
    /\ entradaQual = [total |-> 0, marcadas |-> 0, primeiras |-> TRUE, onde |-> "tudo"]
    /\ horaQual = 0
    /\ horas_com_nan = 0
    /\ pontos_com_nan = <<>>
    /\ estatisticasQual = SemEstatisticas
    /\ pcQual = "parado"

InitQual ==
    /\ entradaQual \in EntradasQual
    /\ horaQual = 1
    /\ horas_com_nan = 0
    /\ pontos_com_nan = <<>>
    /\ estatisticasQual = SemEstatisticas
    /\ pcQual = "horas"

\* one turn of 'for hora, resultados_hora in resultados_krigagem.items()'
Qual_Hora ==
    /\ pcQual = "horas"
    /\ horaQual <= entradaQual.total
    /\ LET resultados_hora_ == ResultadosQual(entradaQual)[horaQual]
           hora_tem_nan ==
               \E v \in DOMAIN resultados_hora_ : ContarNaN(resultados_hora_[v].media) > 0
       IN  /\ horas_com_nan' = IF hora_tem_nan THEN horas_com_nan + 1 ELSE horas_com_nan
           /\ pontos_com_nan' =
                 [v \in DOMAIN resultados_hora_ |->
                     (IF v \in DOMAIN pontos_com_nan THEN pontos_com_nan[v] ELSE 0)
                     + ContarNaN(resultados_hora_[v].media)]
    /\ horaQual' = horaQual + 1
    /\ UNCHANGED <<entradaQual, estatisticasQual, pcQual>>
    /\ UNCHANGED foraQual

\* after the loop: taxa_erro = horas_com_nan / len(resultados_krigagem), a
\* ZeroDivisionError for an empty dict; taxa_erro > 0.1, taxa_erro > 0.05
Qual_Concluir ==
    /\ pcQual = "horas"
    /\ horaQual > entradaQual.total
    /\ estatisticasQual' =
          IF entradaQual.total = 0
          THEN [SemEstatisticas EXCEPT !.raised = TRUE]
          ELSE [raised |-> FALSE, total_horas |-> entradaQual.total, total_pontos |-> 2,
                horas_com_erro |-> horas_com_nan,
                qualidade_geral |->
                    IF 10 * horas_com_nan > entradaQual.total THEN "ruim"
                    ELSE IF 20 * horas_com_nan > entradaQual.total THEN "regular"
                    ELSE "boa"]
    /\ pcQual' = IF entradaQual.total = 0 THEN "ZeroDivisionError" ELSE "fim"
    /\ UNCHANGED <<entradaQual, horaQual, horas_com_nan, pontos_com_nan>>
    /\ UNCHANGED foraQual

NextQual == Qual_Hora \/ Qual_Concluir

-----------------------------------------------------------------------------
(* simulation.py : executar_simulacao with semente_aleatoria.  np.random is  *)
(* one global generator: a state, np.random.seed(s) setting it from s alone, *)
(* every draw a function of the state that also moves the state on.  The     *)
(* solver behind the loop is a function of its arguments.                   *)

\* the states of the generator
EstadosRNG == 0..15

MaxChamadas == 3
MaxSorteiosAlheios == 2

\* semente_aleatoria=None, the default of the argument
SementeNone == -1

\* np.random.seed(semente)
Semear(semente) == semente % Cardinality(EstadosRNG)

\* the state after one draw, and the standard normal value of the draw
Avancar(estado) == (5 * estado + 3) % Cardinality(EstadosRNG)
ValorNormal(estado) == (estado % 3) - 1

\* a variant of 'if semente_aleatoria is not None': the seed 0 is not applied
semente_verdadeira(semente_aleatoria) == semente_aleatoria # SementeNone /\ semente_aleatoria # 0

\* if semente_aleatoria is not None
semente_dada(semente_aleatoria) == semente_aleatoria # SementeNone

\* _amostrar_variaveis_ambientais for metodo 'normal': four draws, in the
\* order of the loop over the variables; the sample and the state left
AmostrarComEstado(medias, desvios, estado) ==
    LET e1 == estado
        e2 == Avancar(e1)
        e3 == Avancar(e2)
        e4 == Avancar(e3)
        valor(var, e) == aplicar_limites_fisicos(
                             var, medias[var].v + ValorNormal(e) * desvios[var].v)
    IN  [amostra |-> [temperatura_ar |-> valor("temperatura_ar", e1),
                      radiacao_global |-> valor("radiacao_global", e2),
                      vento_u |-> valor("vento_u", e3),
                      vento_v |-> valor("vento_v", e4)],
         estado |-> Avancar(e4)]

\* resolver_temperatura_condutor as a function of the sample: the rise over
\* the air temperature grows with the current and the radiation and falls
\* with the wind speed
TemperaturaDaAmostra(amostra, corrente) ==
    amostra.temperatura_ar + 4 * corrente + amostra.radiacao_global \div 100
    - reconstruir_vento(amostra.vento_u, amostra.vento_v).velocidade \div 100

\* _executar_loop_simulacao from the state 'estado': the temperatures
\* appended, the failed iterations and the state left
RECURSIVE LoopComEstado(_, _, _, _)
LoopComEstado(ent, i, estado, acumulado) ==
    IF i >= ent.num_iteracoes THEN [acumulado EXCEPT !.estado = estado]
    ELSE LET a == AmostrarComEstado(ent.medias, ent.desvios, estado)
             T == TemperaturaDaAmostra(a.amostra, ent.corrente)
         IN  LoopComEstado(ent, i + 1, a.estado,
                 IF validar_temperatura_resultado(Fin(T), a.amostra.temperatura_ar)
                 THEN [acumulado EXCEPT !.temperaturas = Append(@, T)]
                 ELSE [acumulado EXCEPT !.iteracoes_com_erro = @ + 1])

\* the arguments of the calls: with and without dispersion, two iterations;
\* the seeds None, 0 and 42
EntradasSem ==
    {[EntradaPadrao EXCEPT !.desvios = d, !.num_iteracoes = 2] :
        d \in {Medias(0, 0, 0, 0), Medias(3, 100, 100, 100)}}
SementesPossiveis == {SementeNone, 0, 42}

SemParado ==
    /\ estadoRNG = 0
    /\ chamadasSem = <<>>
    /\ sorteiosAlheios = 0

\* the generator of a fresh process is in any state
InitSem ==
    /\ estadoRNG \in EstadosRNG
    /\ chamadasSem = <<>>
    /\ sorteiosAlheios = 0

\* one call of executar_simulacao
Sem_ExecutarSimulacao ==
    /\ Len(chamadasSem) < MaxChamadas
    /\ \E ent \in EntradasSem, semente_aleatoria \in SementesPossiveis :
          LET inicio == IF semente_dada(semente_aleatoria)
                        THEN Semear(semente_aleatoria) ELSE estadoRNG
              r == LoopComEstado(ent, 0, inicio,
                       [temperaturas |-> <<>>, iteracoes_com_erro |-> 0, estado |-> inicio])
          IN  /\ estadoRNG' = r.estado
              /\ chamadasSem' = Append(chamadasSem,
                     [entrada |-> ent, semente_aleatoria |-> semente_aleatoria,
                      temperaturas |-> r.temperaturas,
                      iteracoes_validas |-> Len(r.temperaturas),
                      iteracoes_com_erro |-> r.iteracoes_com_erro,
                      estatisticas |-> calcular_estatisticas(r.temperaturas)])
    /\ UNCHANGED sorteiosAlheios
    /\ UNCHANGED foraSem

\* a draw of np.random by other code (the shuffle of the variogram fit, say)
Sem_SorteioAlheio ==
    /\ sorteiosAlheios < MaxSorteiosAlheios
    /\ estadoRNG' = Avancar(estadoRNG)
    /\ sorteiosAlheios' = sorteiosAlheios + 1
    /\ UNCHANGED chamadasSem
    /\ UNCHANGED foraSem

NextSem == Sem_ExecutarSimulacao \/ Sem_SorteioAlheio

-----------------------------------------------------------------------------
(* geoprocessing.py : discretizar_linha.  A vertex is kept by its projected *)
(* coordinates in metres (what converter_coordenadas gives), its chainage    *)
(* and its azimuth; of a point the identifier, the segment, the fraction,   *)
(* the azimuth and the chainage are kept, fractions as num / den.           *)

DISTANCIA_DISCRETIZACAO == 1000
MaxSegmentos == 2

Vertice(x, y, Progressiva, azimute) ==
    [x |-> x, y |-> y, Progressiva |-> Progressiva, azimute |-> azimute]

\* the next vertex of a route: a zero-length segment, segments shorter than,
\* equal to and longer than the spacing, an oblique one of 5000 m, and one
\* whose chainage goes back
Passos ==
    {[dx |-> 0, dy |-> 0, dP |-> 1], [dx |-> 500, dy |-> 0, dP |-> 500],
     [dx |-> 1000, dy |-> 0, dP |-> 1000], [dx |-> 2500, dy |-> 0, dP |-> 2500],
     [dx |-> 3000, dy |-> 4000, dP |-> 5000], [dx |-> 1999, dy |-> 0, dP |-> -100]}

RECURSIVE RotasDe(_)
RotasDe(n) ==
    IF n = 0 THEN {<<Vertice(0, 0, 0, 90)>>}
    ELSE {Append(r, Vertice(r[Len(r)].x + p.dx, r[Len(r)].y + p.dy,
                            r[Len(r)].Progressiva + p.dP, 15 * Len(r))) :
             r \in RotasDe(n - 1), p \in Passos}

\* the routes of 2 vertices or more
RotasPossiveis == UNION {RotasDe(n) : n \in 1..MaxSegmentos}

\* a variant: the number of points of a segment rounded up
num_pontos_arredondado(distancia_segmento, distancia) ==
    Max(1, (distancia_segmento + distancia - 1) \div distancia)

\* max(1, int(distancia_segmento / distancia_entre_pontos))
num_pontos_segmento(distancia_segmento, distancia) ==
    Max(1, distancia_segmento \div distancia)

\* np.sqrt((x_final - x_inicial)**2 + (y_final - y_inicial)**2), its whole
\* metres: int(d / s) is the same for d and for its whole part, s a whole number
distancia_segmento(ponto_inicial, ponto_final) ==
    RaizInteira((ponto_final.x - ponto_inicial.x) * (ponto_final.x - ponto_inicial.x)
                + (ponto_final.y - ponto_inicial.y) * (ponto_final.y - ponto_inicial.y))

\* the points of segment i (from 0), the first of them with identifier id0
PontosDoSegmento(linha, i, distancia, id0) ==
    LET ponto_inicial == linha[i + 1]
        ponto_final == linha[i + 2]
        n == num_pontos_segmento(distancia_segmento(ponto_inicial, ponto_final), distancia)
    IN  [j1 \in 1..n |->
            [ponto_id |-> id0 + j1 - 1,
             segmento |-> i,
             fracao_segmento |-> IF n > 1 THEN Quociente(j1 - 1, n) ELSE Quociente(0, 1),
             azimute |-> ponto_inicial.azimute,
             progressiva_aprox |->
                 IF n > 1
                 THEN Quociente(n * ponto_inicial.Progressiva
                                + (j1 - 1) * (ponto_final.Progressiva - ponto_inicial.Progressiva), n)
                 ELSE Quociente(ponto_inicial.Progressiva, 1)]]

DiscParado ==
    /\ dados_linha = <<>>
    /\ distancia_entre_pontos = DISTANCIA_DISCRETIZACAO
    /\ segmentoDisc = 0
    /\ pontos_discretizados = <<>>
    /\ pcDisc = "parado"

InitDisc ==
    /\ dados_linha \in RotasPossiveis
    /\ distancia_entre_pontos \in {DISTANCIA_DISCRETIZACAO, 300}
    /\ segmentoDisc = 0
    /\ pontos_discretizados = <<>>
    /\ pcDisc = "segmentos"

\* one turn of 'for i in range(len(dados_linha) - 1)'
Disc_Segmento ==
    /\ pcDisc = "segmentos"
    /\ segmentoDisc < Len(dados_linha) - 1
    /\ pontos_discretizados' =
          pontos_discretizados \o PontosDoSegmento(dados_linha, segmentoDisc,
                                                   distancia_entre_pontos,
                                                   Len(pontos_discretizados))
    /\ segmentoDisc' = segmentoDisc + 1
    /\ UNCHANGED <<dados_linha, distancia_entre_pontos, pcDisc>>
    /\ UNCHANGED foraDisc

\* after the loop: the last vertex
Disc_UltimoPonto ==
    /\ pcDisc = "segmentos"
    /\ segmentoDisc >= Len(dados_linha) - 1
    /\ LET ultimo_ponto == dados_linha[Len(dados_linha)] IN
          pontos_discretizados' =
              Append(pontos_discretizados,
                     [ponto_id |-> Len(pontos_discretizados),
                      segmento |-> Len(dados_linha) - 1,
                      fracao_segmento |-> Quociente(1, 1),
                      azimute |-> ultimo_ponto.azimute,
                      progressiva_aprox |-> Quociente(ultimo_ponto.Progressiva, 1)])
    /\ pcDisc' = "fim"
    /\ UNCHANGED <<dados_linha, distancia_entre_pontos, segmentoDisc>>
    /\ UNCHANGED foraDisc

NextDisc == Disc_Segmento \/ Disc_UltimoPonto

-----------------------------------------------------------------------------
(* Specifications: one per component, the other components at rest *)

InitSpecRisco == InitRisco /\ TermicoParado /\ MCParado /\ KrigParado /\ FiltroParado /\ MainParado
    /\ ValParado /\ RedParado /\ VentoParado /\ VarioParado /\ QualParado /\ SemParado
    /\ DiscParado
SpecRisco == InitSpecRisco /\ [][NextRisco]_vars

InitSpecTermico == InitTermico /\ RiscoParado /\ MCParado /\ KrigParado /\ FiltroParado /\ MainParado
    /\ ValParado /\ RedParado /\ VentoParado /\ VarioParado /\ QualParado /\ SemParado
    /\ DiscParado
SpecTermico == InitSpecTermico /\ [][NextTermico]_vars

InitSpecResistencia == InitResistencia /\ RiscoParado /\ MCParado /\ KrigParado /\ FiltroParado /\ MainParado
    /\ ValParado /\ RedParado /\ VentoParado /\ VarioParado /\ QualParado /\ SemParado
    /\ DiscParado
SpecResistencia == InitSpecResistencia /\ [][NextResistencia]_vars

InitSpecMC == InitMC /\ RiscoParado /\ TermicoParado /\ KrigParado /\ FiltroParado /\ MainParado
    /\ ValParado /\ RedParado /\ VentoParado /\ VarioParado /\ QualParado /\ SemParado
    /\ DiscParado
SpecMC == InitSpecMC /\ [][NextMC]_vars

InitSpecKrig == InitKrig /\ RiscoParado /\ TermicoParado /\ MCParado /\ FiltroParado /\ MainParado
    /\ ValParado /\ RedParado /\ VentoParado /\ VarioParado /\ QualParado /\ SemParado
    /\ DiscParado
SpecKrig == InitSpecKrig /\ [][NextKrig]_vars

InitSpecFiltro ==
    InitFiltro /\ RiscoParado /\ TermicoParado /\ MCParado /\ KrigParado /\ MainParado
    /\ ValParado /\ RedParado /\ VentoParado /\ VarioParado /\ QualParado /\ SemParado
    /\ DiscParado
SpecFiltro == InitSpecFiltro /\ [][NextFiltro]_vars

InitSpecMain ==
    InitMain /\ RiscoParado /\ TermicoParado /\ MCParado /\ KrigParado /\ FiltroParado
    /\ ValParado /\ RedParado /\ VentoParado /\ VarioParado /\ QualParado /\ SemParado
    /\ DiscParado
SpecMain == InitSpecMain /\ [][NextMain]_vars

InitSpecVal ==
    InitVal /\ RiscoParado /\ TermicoParado /\ MCParado /\ KrigParado /\ FiltroParado
    /\ MainParado /\ RedParado /\ VentoParado /\ VarioParado /\ QualParado /\ SemParado
    /\ DiscParado
SpecVal == InitSpecVal /\ [][NextVal]_vars

InitSpecRed ==
    InitRed /\ RiscoParado /\ TermicoParado /\ MCParado /\ KrigParado /\ FiltroParado
    /\ MainParado /\ ValParado /\ VentoParado /\ VarioParado /\ QualParado /\ SemParado
    /\ DiscParado
SpecRed == InitSpecRed /\ [][NextRed]_vars

InitSpecVento ==
    InitVento /\ RiscoParado /\ TermicoParado /\ MCParado /\ KrigParado /\ FiltroParado
    /\ MainParado /\ ValParado /\ RedParado /\ VarioParado /\ QualParado /\ SemParado
    /\ DiscParado
SpecVento == InitSpecVento /\ [][NextVento]_vars

InitSpecVario ==
    InitVario /\ RiscoParado /\ TermicoParado /\ MCParado /\ KrigParado /\ FiltroParado
    /\ MainParado /\ ValParado /\ RedParado /\ VentoParado /\ QualParado /\ SemParado
    /\ DiscParado
SpecVario == InitSpecVario /\ [][NextVario]_vars

InitSpecQual ==
    InitQual /\ RiscoParado /\ TermicoParado /\ MCParado /\ KrigParado /\ FiltroParado
    /\ MainParado /\ ValParado /\ RedParado /\ VentoParado /\ VarioParado /\ SemParado
    /\ DiscParado
SpecQual == InitSpecQual /\ [][NextQual]_vars

InitSpecSem ==
    InitSem /\ RiscoParado /\ TermicoParado /\ MCParado /\ KrigParado /\ FiltroParado
    /\ MainParado /\ ValParado /\ RedParado /\ VentoParado /\ VarioParado /\ QualParado
    /\ DiscParado
SpecSem == InitSpecSem /\ [][NextSem]_vars

InitSpecDisc ==
    InitDisc /\ RiscoParado /\ TermicoParado /\ MCParado /\ KrigParado /\ FiltroParado
    /\ MainParado /\ ValParado /\ RedParado /\ VentoParado /\ VarioParado /\ QualParado
    /\ SemParado
SpecDisc == InitSpecDisc /\ [][NextDisc]_vars

-----------------------------------------------------------------------------
(* Claims on the Monte Carlo loop *)

IteracaoFeita == pcMC \in {"loop", "fim"} /\ iteracao > 0

\* C4: an iteration in which resolver_temperatura_condutor fell back to
\* T_air + 50 is not counted as valid and its value is not appended to the
\* temperature distribution.
C4_RecuoExcluido ==
    (IteracaoFeita /\ ultimaIteracao.recuo) =>
        /\ ~ultimaIteracao.aceita
        /\ iteracoes_com_erro > 0

\* the heat balance of the last iteration, as a function of T_c
FIteracao ==
    FuncaoObjetivo(condutor, Corrente(entradaMC.corrente),
                   Fin(ultimaIteracao.amostra.radiacao_global),
                   entradaMC.azimute_linha, ultimaIteracao.velocidade,
                   Fin(ultimaIteracao.angulo_vento),
                   ultimaIteracao.amostra.temperatura_ar)

\* C7: every temperature accepted into the distribution is a root of the
\* heat balance for the inputs of its iteration.
C7_AceitaERaiz ==
    (IteracaoFeita /\ ultimaIteracao.aceita) =>
        RaizEm(FIteracao, ultimaIteracao.amostra.temperatura_ar - 10,
               ultimaIteracao.amostra.temperatura_ar + 300, ultimaIteracao.T.v)

\* the condition of C13 on an iteration: no exception, T finite and
\* sampled_air_temp - 5 <= T <= sampled_air_temp + 200
CondicaoAceite(excecao, T, temperatura_ar) ==
    /\ ~excecao
    /\ isfinite(T)
    /\ temperatura_ar - 5 <= T.v
    /\ T.v <= temperatura_ar + 200

\* temperatures on and next to the limits of the validation for an air
\* temperature, NaN and +infinity
TemperaturasLimite(temperatura_ar) ==
    {Fin(temperatura_ar + d) : d \in {-6, -5, 0, 200, 201}} \cup {NaN, PInf}

\* an iteration of the loop: appended if and only if the condition holds,
\* otherwise counted as failed
PassoDaIteracao ==
    iteracao' = iteracao + 1 =>
        LET r == ultimaIteracao'
        IN  IF CondicaoAceite(r.excecao, r.T, r.amostra.temperatura_ar)
            THEN /\ temperaturas_condutor' = Append(temperaturas_condutor, r.T.v)
                 /\ iteracoes_com_erro' = iteracoes_com_erro
            ELSE /\ temperaturas_condutor' = temperaturas_condutor
                 /\ iteracoes_com_erro' = iteracoes_com_erro + 1

\* C13: in the Monte Carlo loop a solved temperature T is appended to the
\* distribution if and only if the iteration raised no exception and T is
\* finite and sampled_air_temp - 5 <= T <= sampled_air_temp + 200 (the
\* validation returns exactly that for any T); in every other case the
\* iteration is counted as failed and nothing is appended.
C13_AceitaSse ==
    [][/\ PassoDaIteracao
       /\ \A T \in TemperaturasLimite(ultimaIteracao'.amostra.temperatura_ar) :
             validar_temperatura_resultado(T, ultimaIteracao'.amostra.temperatura_ar)
                 <=> CondicaoAceite(FALSE, T, ultimaIteracao'.amostra.temperatura_ar)
      ]_vars

\* C13 witness: two iterations done, both ended in a root that was appended
C13_Witness ==
    /\ pcMC = "loop" /\ iteracao = 2
    /\ ~ultimaIteracao.excecao /\ ~ultimaIteracao.recuo /\ ultimaIteracao.aceita
    /\ Len(temperaturas_condutor) = 2
    /\ temperaturas_condutor[2] = ultimaIteracao.T.v
    /\ iteracoes_com_erro = 0

\* an iteration that raised: counted as failed, nothing appended
C13_WitnessErro ==
    /\ pcMC = "loop" /\ iteracao = 1
    /\ ultimaIteracao.excecao
    /\ temperaturas_condutor = <<>>
    /\ iteracoes_com_erro = 1

Concluida == pcMC = "fim"

\* C14: after executar_simulacao with num_iteracoes = N >= 1 the loop has
\* run exactly N iterations, iteracoes_validas + iteracoes_com_erro = N,
\* iteracoes_validas is the length of the temperature sequence, and
\* taxa_sucesso = iteracoes_validas / N lies in [0, 1].
C14_Contagem ==
    /\ pcMC = "loop" => iteracao <= entradaMC.num_iteracoes
    /\ pcMC \in {"loop", "fim"} =>
          Len(temperaturas_condutor) + iteracoes_com_erro = iteracao
    /\ Concluida =>
          LET N == entradaMC.num_iteracoes
              r == resultadoMC
          IN  /\ N >= 1
              /\ iteracao = N
              /\ r.iteracoes_validas + r.iteracoes_com_erro = N
              /\ r.iteracoes_validas = Len(r.temperaturas)
              /\ r.taxa_sucesso = Quociente(r.iteracoes_validas, N)
              /\ 0 <= r.taxa_sucesso.num
              /\ r.taxa_sucesso.num <= r.taxa_sucesso.den

\* C14 witness: N = 2, one sample of a spread air temperature each, both
\* accepted with different temperatures
C14_Witness ==
    /\ Concluida
    /\ entradaMC.num_iteracoes = 2
    /\ resultadoMC.iteracoes_validas = 2
    /\ resultadoMC.temperaturas[1] # resultadoMC.temperaturas[2]
    /\ resultadoMC.taxa_sucesso = Quociente(2, 2)

\* a simulation whose iterations all failed
C14_WitnessErros ==
    /\ Concluida
    /\ entradaMC.num_iteracoes = 2
    /\ resultadoMC.iteracoes_com_erro = 2
    /\ resultadoMC.taxa_sucesso = Quociente(0, 2)

\* the loop is over with no temperature accepted
SemValidas ==
    /\ pcMC \in {"loop", "fim", "ZeroDivisionError"}
    /\ iteracao = entradaMC.num_iteracoes
    /\ temperaturas_condutor = <<>>

EstatisticasTodasNaN(e) ==
    /\ e.media.nan /\ e.desvio_padrao.nan
    /\ isnan(e.mediana) /\ isnan(e.minimo) /\ isnan(e.maximo)
    /\ isnan(e.percentil_5) /\ isnan(e.percentil_10) /\ isnan(e.percentil_90)
    /\ isnan(e.percentil_95) /\ isnan(e.percentil_99)

ResultadoVazio ==
    /\ resultadoMC.temperaturas = <<>>
    /\ resultadoMC.iteracoes_validas = 0
    /\ EstatisticasTodasNaN(resultadoMC.estatisticas)

\* C15: when a simulation ends with zero valid iterations, executar_simulacao
\* returns normally with an empty temperature sequence, iteracoes_validas = 0
\* and every descriptive statistic NaN; it never ends in an exception.
C15_SemValidasRetorna ==
    SemValidas =>
        /\ pcMC # "ZeroDivisionError"
        /\ pcMC = "fim" => ResultadoVazio

\* what holds of the code: the same for num_iteracoes >= 1
C15_ComIteracoes ==
    SemValidas /\ entradaMC.num_iteracoes >= 1 =>
        /\ pcMC # "ZeroDivisionError"
        /\ pcMC = "fim" => ResultadoVazio

\* N >= 1 iterations that all failed, and the call returned
C15_RetornoVazio ==
    /\ pcMC = "fim"
    /\ entradaMC.num_iteracoes = 2
    /\ resultadoMC.iteracoes_com_erro = 2
    /\ ResultadoVazio

\* the case of C16: the four deviations 0 and the normal method
SemDispersao ==
    /\ entradaMC.metodo_amostragem = "normal"
    /\ DOMAIN entradaMC.desvios = variaveis_obrigatorias
    /\ \A v \in variaveis_obrigatorias : entradaMC.desvios[v] = Fin(0)
    /\ \A v \in variaveis_obrigatorias : isfinite(entradaMC.medias[v])

MediasLimitadas ==
    [v \in variaveis_obrigatorias |->
        aplicar_limites_fisicos(v, entradaMC.medias[v].v)]

\* C16: with the four standard deviations 0 and the normal method, every
\* iteration samples exactly the clamped means and is accepted, all the
\* temperatures are equal, and the result holds one temperature per
\* requested iteration.
C16_SemDispersao ==
    SemDispersao =>
        /\ IteracaoFeita =>
              /\ ultimaIteracao.amostra = MediasLimitadas
              /\ ultimaIteracao.aceita
        /\ \A i, j \in DOMAIN temperaturas_condutor :
              temperaturas_condutor[i] = temperaturas_condutor[j]
        /\ iteracoes_com_erro = 0
        /\ Concluida =>
              /\ Len(resultadoMC.temperaturas) = entradaMC.num_iteracoes
              /\ resultadoMC.estatisticas.minimo = resultadoMC.estatisticas.maximo
              /\ resultadoMC.estatisticas.desvio_padrao.num = 0

\* C16 witness: means beyond the limits, two iterations at the clamped
\* values 60 degC and 4000 W/m2, two equal temperatures
C16_Witness ==
    /\ Concluida /\ SemDispersao
    /\ entradaMC.num_iteracoes = 2
    /\ entradaMC.medias.temperatura_ar = Fin(65)
    /\ ultimaIteracao.amostra.temperatura_ar = 60
    /\ ultimaIteracao.amostra.radiacao_global = 4000
    /\ Len(resultadoMC.temperaturas) = 2
    /\ resultadoMC.temperaturas[1] = resultadoMC.temperaturas[2]

\* C17: every environmental value sampled in an iteration lies, after
\* clamping, within the range the kriging post-filter enforces for its
\* variable: air temperature in [-10, 55] degC, radiation in [0, 1400] W/m2,
\* wind components in [-50, 50] m/s (here in cm/s).
C17_LimitesDaKrigagem ==
    IteracaoFeita /\ ultimaIteracao.amostra # AmostraNula =>
        LET a == ultimaIteracao.amostra
        IN  /\ -10 <= a.temperatura_ar /\ a.temperatura_ar <= 55
            /\ 0 <= a.radiacao_global /\ a.radiacao_global <= 1400
            /\ -5000 <= a.vento_u /\ a.vento_u <= 5000
            /\ -5000 <= a.vento_v /\ a.vento_v <= 5000

\* what the clamp of the simulator does enforce: the limits of config.py
C17_LimitesDaConfiguracao ==
    IteracaoFeita /\ ultimaIteracao.amostra # AmostraNula =>
        LET a == ultimaIteracao.amostra
        IN  /\ TEMP_AR_MIN <= a.temperatura_ar /\ a.temperatura_ar <= TEMP_AR_MAX
            /\ RADIACAO_MIN <= a.radiacao_global /\ a.radiacao_global <= RADIACAO_MAX
            /\ -5000 <= a.vento_u /\ a.vento_u <= 5000
            /\ -5000 <= a.vento_v /\ a.vento_v <= 5000

-----------------------------------------------------------------------------
(* Claims on the hourly kriging *)

\* the stations of timestamp h that hold a value of the variable
EstacoesComValor(h, variavel) ==
    IF variavel \notin dados_sincronizados.colunas THEN {}
    ELSE LET dados_hora == DadosHora(dados_sincronizados, h)
         IN  {i \in DOMAIN dados_hora : ~isnan(dados_hora[i].valores[variavel])}

TodoNaN(vetor) == \A i \in DOMAIN vetor : isnan(vetor[i])

\* the entry of (h, variavel), finished or being built
EntradasKrig ==
    {<<h, v, resultados_krigagem[h][v]>> :
        h \in DOMAIN resultados_krigagem, v \in Elementos(variaveis_ambientais)}
    \cup (IF pcKrig = "variaveis"
          THEN {<<HoraAtual, v, resultados_hora[v]>> : v \in DOMAIN resultados_hora}
          ELSE {})

\* C9: for every (timestamp, variable) with fewer than 2 stations holding a
\* non-missing value, the result is all NaN (media, variancia and
\* desvio_padrao, each of length num_pontos) and neither variogram
\* selection nor kriging was attempted; the values handed to kriging are
\* the station values without the NaN, never a NaN turned into a number.
C9_PoucasEstacoes ==
    /\ \A e \in EntradasKrig :
          Cardinality(EstacoesComValor(e[1], e[2])) < 2 =>
              /\ Len(e[3].media) = num_pontos /\ TodoNaN(e[3].media)
              /\ Len(e[3].variancia) = num_pontos /\ TodoNaN(e[3].variancia)
              /\ Len(e[3].desvio_padrao) = num_pontos /\ TodoNaN(e[3].desvio_padrao)
              /\ \A t \in tentativasKrig : ~(t.hora = e[1] /\ t.variavel = e[2])
    /\ \A t \in tentativasKrig :
          /\ Cardinality(EstacoesComValor(t.hora, t.variavel)) >= 2
          /\ Len(t.valores) = Cardinality(EstacoesComValor(t.hora, t.variavel))
          /\ \A i \in DOMAIN t.valores : ~isnan(t.valores[i])

\* C9 witness: the run is over, a timestamp had one radiation value at two
\* stations: temperature was kriged there, radiation was not
C9_Witness ==
    /\ pcKrig = "fim"
    /\ \E h \in DOMAIN resultados_krigagem :
          /\ Len(DadosHora(dados_sincronizados, h)) = 2
          /\ Cardinality(EstacoesComValor(h, "radiacao_global")) = 1
          /\ "radiacao_global" \in DOMAIN resultados_krigagem[h]
          /\ TodoNaN(resultados_krigagem[h]["radiacao_global"].media)
          /\ \E t \in tentativasKrig : t.hora = h /\ t.variavel = "temperatura_ar"

\* C10: executar_krigagem_horaria returns, whatever failed, a result with an
\* entry for every unique timestamp of the input, every requested variable
\* in every entry, and media, variancia and desvio_padrao of length
\* num_pontos for every variable.
C10_ResultadoCompleto ==
    pcKrig = "fim" =>
        /\ DOMAIN resultados_krigagem =
              {dados_sincronizados.linhas[i].hora : i \in DOMAIN dados_sincronizados.linhas}
        /\ \A h \in DOMAIN resultados_krigagem :
              /\ DOMAIN resultados_krigagem[h] = Elementos(variaveis_ambientais)
              /\ \A v \in DOMAIN resultados_krigagem[h] :
                    /\ Len(resultados_krigagem[h][v].media) = num_pontos
                    /\ Len(resultados_krigagem[h][v].variancia) = num_pontos
                    /\ Len(resultados_krigagem[h][v].desvio_padrao) = num_pontos

\* C10 witness: two timestamps, the first failed as a whole (one station),
\* in the second the kriging of a variable raised and the other succeeded
C10_Witness ==
    /\ pcKrig = "fim"
    /\ DOMAIN resultados_krigagem = {1, 2}
    /\ Len(DadosHora(dados_sincronizados, 1)) = 1
    /\ variaveis_ambientais = <<"temperatura_ar", "radiacao_global">>
    /\ Cardinality({t \in tentativasKrig : t.hora = 2}) = 2
    /\ TodoNaN(resultados_krigagem[2]["temperatura_ar"].variancia)
    /\ resultados_krigagem[2]["radiacao_global"].media[num_pontos] = Fin(500)

\* x >= 0 as Python evaluates it: False for a NaN
NaoNegativo(x) == x = Fin(0) \/ FloatGT(x, Fin(0))

\* C11 as stated: every variance entry of every kriging output, the failed
\* all-NaN slices included, satisfies variance >= 0.
C11_Original ==
    \A e \in EntradasKrig :
        \A i \in DOMAIN e[3].variancia : NaoNegativo(e[3].variancia[i])

\* C11: every variance entry of every kriging output is NaN or satisfies
\* variance >= 0, also when the raw kriging output is negative; the standard
\* deviation is NaN exactly where the variance is NaN.
C11_Variancia ==
    \A e \in EntradasKrig :
        \A i \in DOMAIN e[3].variancia :
            /\ isnan(e[3].variancia[i]) \/ NaoNegativo(e[3].variancia[i])
            /\ isnan(e[3].desvio_padrao[i]) <=> isnan(e[3].variancia[i])

\* C11 witness: the run is over; the library returned the variance -1 for a
\* value outside the physical range, stored as variance 0 next to the NaN
\* mean, and another slice failed with a NaN variance
C11_Witness ==
    /\ pcKrig = "fim"
    /\ \E e \in EntradasKrig :
          /\ \E t \in tentativasKrig : t.hora = e[1] /\ t.variavel = e[2]
          /\ e[3].variancia[1] = Fin(0)
          /\ isnan(e[3].media[1])
    /\ \E e \in EntradasKrig :
          /\ \A t \in tentativasKrig : ~(t.hora = e[1] /\ t.variavel = e[2])
          /\ TodoNaN(e[3].variancia)

\* the physical range of a variable, as the claim gives it
FaixaFisica(variavel) ==
    CASE variavel = "radiacao_global" -> [min |-> 0, max |-> 1400]
      [] variavel = "temperatura_ar" -> [min |-> -10, max |-> 55]
      [] variavel \in {"vento_u", "vento_v"} -> [min |-> -50, max |-> 50]
      [] variavel = "vento_velocidade" -> [min |-> 0, max |-> 50]

NaFaixa(x, variavel) ==
    /\ isfinite(x)
    /\ FaixaFisica(variavel).min <= x.v
    /\ x.v <= FaixaFisica(variavel).max

\* C12: the post-filter of a variable turns every mean outside the physical
\* range of the variable into NaN (never into the boundary), leaves every
\* value inside the range, the boundaries included, and every NaN as it
\* is, and filtering a filtered array returns the same array.
C12_FiltroIdempotente ==
    /\ \A k \in DOMAIN filtroSaidas : Len(filtroSaidas[k]) = Len(filtroValores)
    /\ filtroSaidas # <<>> =>
          \A i \in DOMAIN filtroValores :
              filtroSaidas[1][i] =
                  IF NaFaixa(filtroValores[i], filtroVariavel)
                  THEN filtroValores[i] ELSE NaN
    /\ \A k \in DOMAIN filtroSaidas : k > 1 => filtroSaidas[k] = filtroSaidas[k - 1]

\* C12 witness: radiation 1400 (the upper boundary) next to 1401; the first
\* pass kept the one and made the other NaN, the second pass changed nothing
C12_Witness ==
    /\ filtroVariavel = "radiacao_global"
    /\ filtroValores = <<Fin(1400), Fin(1401)>>
    /\ filtroSaidas = << <<Fin(1400), NaN>>, <<Fin(1400), NaN>> >>

-----------------------------------------------------------------------------
(* Claims on the complete analysis *)

Feitas(nomes) == {i \in DOMAIN etapas : etapas[i].nome \in nomes}

\* a Monte Carlo simulation may run or has run
SimulacoesIniciadas == pcMain = "etapa6" \/ Feitas({"celula"}) # {}

\* the kriging has returned an entry for every timestamp of the frame with
\* every variable of VARIAVEIS_AMBIENTAIS at every point, and the analyser
\* holds that result
KrigagemCompleta ==
    /\ pcKrig = "fim"
    /\ self_resultados_krigagem = resultados_krigagem
    /\ DOMAIN self_resultados_krigagem =
          {cenarioMain.dados.linhas[i].hora : i \in DOMAIN cenarioMain.dados.linhas}
    /\ \A h \in DOMAIN self_resultados_krigagem :
          /\ DOMAIN self_resultados_krigagem[h] = Elementos(VARIAVEIS_AMBIENTAIS)
          /\ \A v \in DOMAIN self_resultados_krigagem[h] :
                /\ Len(self_resultados_krigagem[h][v].media) = Len(pontos_linha)
                /\ Len(self_resultados_krigagem[h][v].variancia) = Len(pontos_linha)

\* C18: in executar_analise_completa no Monte Carlo simulation of a cell
\* starts before the kriging has completed for its timestamp (for every
\* timestamp) across all requested variables, and the kriging results are
\* not modified once the simulations have started.
C18_KrigagemAntes ==
    [][/\ SimulacoesIniciadas => KrigagemCompleta
       /\ SimulacoesIniciadas' => KrigagemCompleta'
       /\ SimulacoesIniciadas =>
             /\ self_resultados_krigagem' = self_resultados_krigagem
             /\ resultados_krigagem' = resultados_krigagem
             /\ resultados_hora' = resultados_hora
      ]_vars

\* C18 witness: the run ended True; two timestamps were kriged, a cell of
\* timestamp 1 was simulated with valid iterations
C18_Witness ==
    /\ pcMain = "True"
    /\ DOMAIN self_resultados_krigagem = {1, 2}
    /\ \E i \in Feitas({"celula"}) : etapas[i].hora = 1 /\ etapas[i].desfecho = "validas"
    /\ Feitas({"executar_krigagem_horaria"}) # {}
    /\ Len(resultados_finais) >= 1

FalhaDeValidacao == ~cenarioMain.parametros_validos \/ ~cenarioMain.linha_valida

\* C19: if the validation of the conductor parameters or of the line
\* geometry fails while loading, executar_analise_completa returns False
\* and performs no discretization, no kriging, no Monte Carlo simulation
\* and no saving of results.
C19_SemAnaliseParcial ==
    FalhaDeValidacao /\ pcMain # "parado" =>
        /\ pcMain \in {"etapa1", "etapa2", "False"}
        /\ Feitas({"carregar_parametros_cabo"}) # {} => pcMain = "False"
        /\ Feitas({"discretizar_linha", "executar_krigagem_horaria",
                   "salvar_dados_intermediarios", "inicializar_modelos", "celula",
                   "salvar_resultados_finais"}) = {}
        /\ pontos_linha = <<>>
        /\ pcKrig = "inicio"
        /\ self_resultados_krigagem = DictVazio
        /\ resultados_finais = <<>>
        /\ arquivos_salvos = {}

\* C19 witness: the parameters were valid, the line geometry was not: the
\* run ended False right after carregar_dados_linha
C19_Witness ==
    /\ pcMain = "False"
    /\ cenarioMain.parametros_validos /\ ~cenarioMain.linha_valida
    /\ etapas = <<Etapa("validar_configuracao"), Etapa("carregar_parametros_cabo"),
                  Etapa("carregar_dados_linha")>>

CelulasFalhas ==
    {i \in Feitas({"celula"}) : etapas[i].desfecho \in {"excecao", "sem_validas"}}

EntradasDaCelula(i) ==
    {j \in DOMAIN resultados_finais :
        /\ resultados_finais[j].hora = etapas[i].hora
        /\ resultados_finais[j].ponto_id = etapas[i].ponto}

\* the cells of the run, all of them gone through
TodasAsCelulas ==
    /\ combinacoes_processadas = Len(pontos_linha) * Len(HorasKrigadas)
    /\ Cardinality(Feitas({"celula"})) = combinacoes_processadas

\* C20: a cell whose simulation has zero valid iterations, or raises, does
\* not abort the run: the remaining cells are still processed, and the cell
\* yields an all-NaN entry in the final results.
C20_CelulaTodaNaN ==
    pcMain \in {"True", "False"} /\ Feitas({"inicializar_modelos"}) # {} =>
        /\ TodasAsCelulas
        /\ \A i \in CelulasFalhas :
              \E j \in EntradasDaCelula(i) :
                  /\ resultados_finais[j].temperatura_condutor_media.nan
                  /\ isnan(resultados_finais[j].temperatura_condutor_p90)
                  /\ resultados_finais[j].risco_termico.nan

\* what holds of the code: the run goes on through all the cells, and a
\* failed cell has no entry at all
C20_CelulaOmitida ==
    pcMain \in {"True", "False"} /\ Feitas({"inicializar_modelos"}) # {} =>
        /\ TodasAsCelulas
        /\ \A i \in CelulasFalhas : EntradasDaCelula(i) = {}
        /\ \A i \in Feitas({"celula"}) :
              etapas[i].desfecho = "validas" <=> EntradasDaCelula(i) # {}
        /\ pcMain = "False" => resultados_finais # <<>> /\ ~cenarioMain.gravacao_ok

\* two points: the simulation of the first had no valid iteration, the
\* second was simulated after it and is the only entry
C20_FalhaSeguida ==
    /\ pcMain = "True"
    /\ Len(pontos_linha) = 2
    /\ \E i \in CelulasFalhas : etapas[i].ponto = 1 /\ etapas[i].desfecho = "sem_validas"
    /\ \E i \in Feitas({"celula"}) : etapas[i].ponto = 2 /\ etapas[i].desfecho = "validas"
    /\ Len(resultados_finais) = 1
    /\ resultados_finais[1].ponto_id = 2

\* a cell whose simulation raised (the deviation handed over is infinite)
C20_FalhaExcecao ==
    /\ pcMain = "True"
    /\ \E i \in CelulasFalhas : etapas[i].desfecho = "excecao"

-----------------------------------------------------------------------------
(* Claims on the risk evaluator *)

Classificado == pcRisco \in {"classificado", "direto"}

\* C1: classificar_risco_nbr_5422 maps every probability to exactly one
\* category: p < 0.01 'baixo', 0.01 <= p < 0.05 'moderado', 0.05 <= p < 0.10
\* 'alto', p >= 0.10 'critico', NaN 'indefinido'; each boundary value
\* belongs to the higher category.
C1_Classificacao ==
    Classificado =>
        LET p == probabilidade_excedencia
            n == p.num * 100
            d == p.den
        IN  /\ categoria \in {"baixo", "moderado", "alto", "critico", "indefinido"}
            /\ (categoria = "indefinido") <=> p.nan
            /\ (categoria = "baixo") <=> (~p.nan /\ n < d)
            /\ (categoria = "moderado") <=> (~p.nan /\ d <= n /\ n < 5 * d)
            /\ (categoria = "alto") <=> (~p.nan /\ 5 * d <= n /\ n < 10 * d)
            /\ (categoria = "critico") <=> (~p.nan /\ 10 * d <= n)

\* C1 witness: a boundary probability (exactly 0.05) has been classified
C1_Witness ==
    /\ pcRisco = "direto"
    /\ probabilidade_excedencia = Quociente(500, 100 * 100)
    /\ categoria = "alto"

\* the finite entries and the exceedances of the distribution, counted on
\* the index set
IndicesFinitos == {i \in DOMAIN temperaturas_distribuicao :
                      temperaturas_distribuicao[i].k = "fin"}
IndicesExcedentes == {i \in IndicesFinitos :
                         temperaturas_distribuicao[i].v > temperatura_max_projeto.v}
Calculado == pcRisco \in {"calculado", "classificado"}

\* C2 as stated: for every distribution, empty ones and ones with non-finite
\* entries included, the result is a value in [0, 1] equal to the fraction of
\* finite values strictly greater than the limit.
C2_Original ==
    Calculado =>
        LET p == probabilidade_excedencia IN
        /\ ~p.nan
        /\ 0 <= p.num /\ p.num <= p.den
        /\ p.num * Cardinality(IndicesFinitos) = Cardinality(IndicesExcedentes) * p.den

\* C2 amended: NaN exactly when the distribution holds no finite value (the
\* empty one included); otherwise a value in [0, 1] equal to the fraction of
\* finite values strictly greater than the limit, 0 when none exceeds and 1
\* when all exceed.
C2_Risco ==
    Calculado =>
        LET p == probabilidade_excedencia IN
        /\ p.nan <=> (IndicesFinitos = {})
        /\ ~p.nan =>
              /\ 0 <= p.num /\ p.num <= p.den
              /\ p.num * Cardinality(IndicesFinitos)
                    = Cardinality(IndicesExcedentes) * p.den
              /\ (IndicesExcedentes = {}) => p.num = 0
              /\ (IndicesExcedentes = IndicesFinitos) => p.num = p.den

\* C2 witness: a distribution with a non-finite entry, a value equal to the
\* limit and a value above it has been reduced to 1/2
C2_Witness ==
    /\ Calculado
    /\ temperaturas_distribuicao = <<NaN, Fin(75), Fin(80)>>
    /\ temperatura_max_projeto = Fin(75)
    /\ probabilidade_excedencia = Quociente(1, 2)

-----------------------------------------------------------------------------
(* Claims on the validation of the conductor parameters *)

Validado == pcVal \in {"carregado", "ValueError", "modelo"}

Presentes(parametros) ==
    \A i \in DOMAIN PARAMETROS_CABO_OBRIGATORIOS :
        parametros[PARAMETROS_CABO_OBRIGATORIOS[i]] # Ausente

\* a number lo <= x <= hi
Entre(x, lo, hi) == x.k = "fin" /\ lo <= x.v /\ x.v <= hi

\* the invariants as specified: diameter in 5-100 mm, 0 < R25 < R75,
\* emissivity and absorptivity in (0, 1]
InvariantesEspecificados(parametros) ==
    /\ Presentes(parametros)
    /\ Entre(parametros.diametro, DiametroMinimo, DiametroMaximo)
    /\ FloatGT(parametros.resistencia_ac_25, Fin(0))
    /\ FloatGT(parametros.resistencia_ac_75, parametros.resistencia_ac_25)
    /\ Entre(parametros.emissividade, 1, EmissividadeMaxima)
    /\ Entre(parametros.absortividade, 1, EmissividadeMaxima)

\* what the claim lists as rejected
RejeicaoEspecificada(parametros) ==
    \/ ~Presentes(parametros)
    \/ \E i \in DOMAIN PARAMETROS_CABO_OBRIGATORIOS :
          FloatLE(parametros[PARAMETROS_CABO_OBRIGATORIOS[i]], Fin(0))
    \/ FloatLE(parametros.resistencia_ac_75, parametros.resistencia_ac_25)
    \/ FloatLT(parametros.diametro, Fin(DiametroMinimo))
    \/ FloatGT(parametros.diametro, Fin(DiametroMaximo))
    \/ FloatGT(parametros.emissividade, Fin(EmissividadeMaxima))
    \/ FloatGT(parametros.absortividade, Fin(EmissividadeMaxima))

\* C21 as stated: validar_parametros_condutor rejects, with at least one
\* error, every set with a missing or non-positive parameter, R75 <= R25, a
\* diameter outside 5-100 mm or a coefficient above 1, and accepts with no
\* error every set that satisfies the specified invariants (coefficients
\* in (0, 1]); rejected parameters never reach the thermal model.
C21_Original ==
    Validado =>
        /\ RejeicaoEspecificada(parametrosArquivo) => ~eh_valido /\ Len(erros) >= 1
        /\ InvariantesEspecificados(parametrosArquivo) => eh_valido /\ erros = <<>>
        /\ ~eh_valido => modelo_termico = SemParametros /\ pcVal = "ValueError"

\* every comparison of the validator is false for x: a number inside
\* [lo, hi], or NaN
NaoForaDe(x, lo, hi) == x # Ausente /\ (isnan(x) \/ Entre(x, lo, hi))

\* C21 amended: the set is accepted, with no error, exactly when the five
\* parameters are present, none is <= 0, R75 <= R25 is false, the diameter
\* is not outside 5-100 mm and the two coefficients are not outside
\* [0.1, 1.0], a NaN making every such comparison false; otherwise it is
\* rejected with at least one error, the loader raises and no thermal model
\* is constructed; an accepted set is the one the model is constructed from.
C21_Validacao ==
    Validado =>
        /\ eh_valido <=>
              /\ Presentes(parametrosArquivo)
              /\ NaoForaDe(parametrosArquivo.diametro, DiametroMinimo, DiametroMaximo)
              /\ ~FloatLE(parametrosArquivo.resistencia_ac_25, Fin(0))
              /\ ~FloatLE(parametrosArquivo.resistencia_ac_75, Fin(0))
              /\ ~FloatLE(parametrosArquivo.resistencia_ac_75, parametrosArquivo.resistencia_ac_25)
              /\ NaoForaDe(parametrosArquivo.emissividade, EmissividadeMinima, EmissividadeMaxima)
              /\ NaoForaDe(parametrosArquivo.absortividade, EmissividadeMinima, EmissividadeMaxima)
        /\ eh_valido <=> erros = <<>>
        /\ RejeicaoEspecificada(parametrosArquivo) => ~eh_valido
        /\ ~eh_valido => modelo_termico = SemParametros /\ pcVal = "ValueError"
        /\ pcVal = "modelo" => eh_valido /\ modelo_termico = parametrosArquivo

\* C21 witness: a set with emissivity 0.05, inside (0, 1], all else as in the
\* test of the repository, was rejected with exactly that error
C21_Witness ==
    /\ pcVal = "ValueError"
    /\ parametrosArquivo = [diametro |-> Fin(281), resistencia_ac_25 |-> Fin(728),
                            resistencia_ac_75 |-> Fin(909), emissividade |-> Fin(5),
                            absortividade |-> Fin(80)]
    /\ erros = <<Erro("emissividade", "fora_da_faixa")>>

\* the parameters of test_basic.py were accepted and the model constructed
C21_WitnessAceito ==
    /\ pcVal = "modelo"
    /\ modelo_termico = [diametro |-> Fin(281), resistencia_ac_25 |-> Fin(728),
                         resistencia_ac_75 |-> Fin(909), emissividade |-> Fin(80),
                         absortividade |-> Fin(80)]

\* a set with a NaN diameter was accepted
C21_WitnessNaN ==
    /\ pcVal = "modelo"
    /\ isnan(modelo_termico.diametro)

-----------------------------------------------------------------------------
(* Claims on the reductions of the risk evaluator *)

ValoresFinitos == {distribuicaoRed[i].v : i \in {j \in DOMAIN distribuicaoRed : distribuicaoRed[j].k = "fin"}}
NumFinitos == Cardinality({j \in DOMAIN distribuicaoRed : distribuicaoRed[j].k = "fin"})

\* m * x lies between the least and the greatest finite value
DentroDosFinitos(x, m) ==
    /\ x.k = "fin"
    /\ \E a \in ValoresFinitos : m * a <= x.v
    /\ \E b \in ValoresFinitos : x.v <= m * b

\* C22: the reductions of the risk evaluator ignore the non-finite entries
\* and return NaN instead of raising when too few finite values exist:
\* calcular_temperatura_confianca is NaN without a finite value,
\* calcular_intervalo_confianca has NaN bounds with fewer than 2 finite
\* values and lower <= upper otherwise, calcular_vida_util_estimada has NaN
\* factors without a finite value.
C22_Reducoes ==
    /\ "calcular_temperatura_confianca" \in chamadasRed =>
          IF NumFinitos = 0 THEN isnan(temp_confianca)
          ELSE DentroDosFinitos(temp_confianca, 100)
    /\ "calcular_intervalo_confianca" \in chamadasRed =>
          IF NumFinitos < 2
          THEN isnan(intervalo_confianca.limite_inferior)
               /\ isnan(intervalo_confianca.limite_superior)
          ELSE /\ DentroDosFinitos(intervalo_confianca.limite_inferior, 1000)
               /\ DentroDosFinitos(intervalo_confianca.limite_superior, 1000)
               /\ intervalo_confianca.limite_inferior.v <= intervalo_confianca.limite_superior.v
    /\ "calcular_vida_util_estimada" \in chamadasRed =>
          IF NumFinitos = 0
          THEN vida_util.fator_reducao = "nan" /\ vida_util.vida_util_relativa = "nan"
          ELSE vida_util.fator_reducao # "nan" /\ vida_util.vida_util_relativa # "nan"

\* C22 witness: NaN, inf and one finite value: the percentile is that value,
\* the interval is NaN, the life factors are numbers
C22_Witness ==
    /\ chamadasRed = {"calcular_temperatura_confianca", "calcular_intervalo_confianca",
                      "calcular_vida_util_estimada"}
    /\ distribuicaoRed = <<NaN, Fin(80), PInf>>
    /\ temp_confianca = Fin(100 * 80)
    /\ isnan(intervalo_confianca.limite_inferior)
    /\ vida_util.fator_reducao = "maior_que_1"

\* two finite values among NaN: bounds strictly ordered
C22_WitnessIntervalo ==
    /\ "calcular_intervalo_confianca" \in chamadasRed
    /\ distribuicaoRed = <<Fin(80), NaN, Fin(60)>>
    /\ intervalo_confianca.limite_inferior = Fin(60500)
    /\ intervalo_confianca.limite_superior = Fin(79500)

\* no finite value at all
C22_WitnessSemFinitos ==
    /\ Cardinality(chamadasRed) = 3
    /\ distribuicaoRed = <<NaN, PInf>>
    /\ isnan(temp_confianca)
    /\ vida_util.fator_reducao = "nan"

-----------------------------------------------------------------------------
(* Claims on the wind of an iteration *)

\* C23 as stated: in every iteration the reconstructed wind direction lies
\* in [0, 360), the speed in [0, 50] m/s, and for a line azimuth in [0, 360]
\* the attack angle lies in [0, 90] and is the same for the wind turned by
\* 180 degrees.
C23_Original ==
    /\ pcVento \in {"reconstruido", "angulo"} =>
          /\ 0 <= vento_reconstruido.direcao /\ vento_reconstruido.direcao < 360
          /\ 0 <= vento_reconstruido.velocidade /\ vento_reconstruido.velocidade <= 100 * VENTO_VEL_MAX
    /\ pcVento = "angulo" =>
          /\ 0 <= angulo_ataque /\ angulo_ataque <= 90
          /\ angulo_ataque = angulo_oposto

\* C23 amended: the direction lies in [0, 360], the value 360 arising only
\* when the normalisation of a negative angle rounds; the speed lies in
\* [0, 50] m/s; the attack angle lies in [0, 90] and is the same for the
\* wind turned by 180 degrees.
C23_Vento ==
    /\ pcVento \in {"reconstruido", "angulo"} =>
          /\ 0 <= vento_reconstruido.direcao /\ vento_reconstruido.direcao <= 360
          /\ vento_reconstruido.direcao = 360 =>
                componentesVento.residuo = "negativo" /\ componentesVento.u > 0
          /\ 0 <= vento_reconstruido.velocidade /\ vento_reconstruido.velocidade <= 100 * VENTO_VEL_MAX
          /\ componentesVento.u # 0 \/ componentesVento.v # 0 =>
                vento_oposto.direcao \in {vento_reconstruido.direcao - 180,
                                          vento_reconstruido.direcao + 180}
    /\ pcVento = "angulo" =>
          /\ 0 <= angulo_ataque /\ angulo_ataque <= 90
          /\ angulo_ataque = angulo_oposto

\* C23 witness: u = 1 m/s and v a negative number below the grid: the
\* direction is 360, and the attack angle on a line of azimuth 15 is 15,
\* as for the opposite wind of direction 180
C23_Witness ==
    /\ pcVento = "angulo"
    /\ componentesVento = [u |-> 100, v |-> 0, residuo |-> "negativo"]
    /\ azimuteVento = 15
    /\ vento_reconstruido.direcao = 360
    /\ vento_oposto.direcao = 180
    /\ angulo_ataque = 15

\* both components at their limit: the speed is cut to 50 m/s, the angle
\* was folded twice
C23_WitnessLimite ==
    /\ pcVento = "angulo"
    /\ componentesVento.u = -100 * VENTO_VEL_MAX /\ componentesVento.v = -100 * VENTO_VEL_MAX
    /\ vento_reconstruido.velocidade = 100 * VENTO_VEL_MAX
    /\ vento_reconstruido.direcao = 225
    /\ azimuteVento = 0
    /\ angulo_ataque = 45

-----------------------------------------------------------------------------
(* Claims on the choice of the variogram model *)

CandidatosDe == modelos_testar(entradaVario.variavel)

\* the candidates that evaluated without error or NaN
Avaliados == {i \in DOMAIN CandidatosDe :
                 entradaVario.candidatos[CandidatosDe[i]].desfecho = "avaliado"}

PontuacaoDe(i) ==
    Pontuacao(entradaVario.candidatos[CandidatosDe[i]], entradaVario.variavel,
              entradaVario.variancia_dados)

\* the first of the candidates of S that no candidate of S beats
PrimeiroMinimo(S) ==
    LET minimos == {i \in S : \A j \in S : ~FloatLT(PontuacaoDe(j), PontuacaoDe(i))}
    IN  CandidatosDe[CHOOSE i \in minimos : \A j \in minimos : i <= j]

Pontuados == {i \in Avaliados : PontuacaoDe(i).k = "fin"}

C24_WitnessPadrao ==
    /\ pcVario = "fim"
    /\ entradaVario.variavel = "radiacao_global"
    /\ Avaliados = DOMAIN CandidatosDe
    /\ Pontuados = {}
    /\ modeloAjustado = "linear"

\* three stations
C24_WitnessPoucas ==
    /\ pcVario = "fim"
    /\ entradaVario.n_estacoes = 3
    /\ entradaVario.variavel = "radiacao_global"
    /\ modeloAjustado = "linear"

\* four stations, one of them validates; power wins over a failed linear
C24_WitnessPower ==
    /\ pcVario = "fim"
    /\ entradaVario.n_estacoes = 4
    /\ n_validacao = 1
    /\ entradaVario.candidatos.linear.desfecho = "excecao"
    /\ modeloAjustado = "power"

-----------------------------------------------------------------------------
(* Claims on the quality verdict of the kriging *)

\* the timestamps with at least one NaN mean in some variable
HorasComMediaNaN ==
    {h \in 1..entradaQual.total :
        \E v \in DOMAIN ResultadosQual(entradaQual)[h] :
            \E i \in DOMAIN ResultadosQual(entradaQual)[h][v].media :
                isnan(ResultadosQual(entradaQual)[h][v].media[i])}

\* the verdict for h of n timestamps: 'ruim' for h / n > 0.10, 'regular'
\* for 0.05 < h / n <= 0.10, 'boa' for h / n <= 0.05 (and for no timestamp)
Veredicto(h, n) ==
    IF 10 * h > n THEN "ruim" ELSE IF 20 * h > n THEN "regular" ELSE "boa"

QualTerminada == pcQual \in {"fim", "ZeroDivisionError"}

\* C25: validar_resultados_krigagem returns a quality verdict for every
\* kriging result set, one with zero timestamps included, derived only from
\* the fraction of timestamps with at least one NaN mean; horas_com_erro is
\* the number of such timestamps.
C25_VeredictoSempre ==
    QualTerminada =>
        /\ ~estatisticasQual.raised
        /\ estatisticasQual.horas_com_erro = Cardinality(HorasComMediaNaN)
        /\ estatisticasQual.qualidade_geral =
              Veredicto(Cardinality(HorasComMediaNaN), entradaQual.total)

\* what holds of the code: the same for one timestamp or more
C25_VeredictoComHoras ==
    QualTerminada /\ entradaQual.total >= 1 =>
        /\ ~estatisticasQual.raised
        /\ estatisticasQual.horas_com_erro = Cardinality(HorasComMediaNaN)
        /\ estatisticasQual.qualidade_geral =
              Veredicto(Cardinality(HorasComMediaNaN), entradaQual.total)

\* no timestamp: the call ends in the exception
C25_SemHoras ==
    /\ pcQual = "ZeroDivisionError"
    /\ entradaQual.total = 0
    /\ estatisticasQual.raised

\* 2 of 20 timestamps: exactly one tenth, 'regular'
C25_Regular ==
    /\ pcQual = "fim"
    /\ entradaQual.total = 20
    /\ estatisticasQual.horas_com_erro = 2
    /\ estatisticasQual.qualidade_geral = "regular"

\* NaN variances only: no timestamp counted
C25_SoVariancia ==
    /\ pcQual = "fim"
    /\ entradaQual.onde = "so_variancia" /\ entradaQual.marcadas = 5
    /\ estatisticasQual.horas_com_erro = 0
    /\ estatisticasQual.qualidade_geral = "boa"

-----------------------------------------------------------------------------
(* Claims on the seed of the simulation *)

MesmoResultado(a, b) ==
    /\ a.temperaturas = b.temperaturas
    /\ a.iteracoes_validas = b.iteracoes_validas
    /\ a.iteracoes_com_erro = b.iteracoes_com_erro
    /\ a.estatisticas = b.estatisticas

\* C26: two calls of executar_simulacao with identical arguments and the
\* same non-None semente_aleatoria return identical temperature sequences,
\* valid and failed counts and statistics, whatever simulations or random
\* draws happened between them.
C26_MesmaSemente ==
    \A i, j \in DOMAIN chamadasSem :
        /\ chamadasSem[i].entrada = chamadasSem[j].entrada
        /\ chamadasSem[i].semente_aleatoria = chamadasSem[j].semente_aleatoria
        /\ chamadasSem[i].semente_aleatoria # SementeNone
        => MesmoResultado(chamadasSem[i], chamadasSem[j])

\* C26 witness: two calls with seed 0 and dispersion, a call without seed
\* and a foreign draw in between; the unseeded call, with the same other
\* arguments, returned other temperatures
C26_Witness ==
    /\ Len(chamadasSem) = 3
    /\ sorteiosAlheios >= 1
    /\ chamadasSem[1].semente_aleatoria = 0 /\ chamadasSem[3].semente_aleatoria = 0
    /\ chamadasSem[2].semente_aleatoria = SementeNone
    /\ chamadasSem[1].entrada = chamadasSem[3].entrada
    /\ chamadasSem[1].entrada = chamadasSem[2].entrada
    /\ chamadasSem[1].entrada.num_iteracoes = 2
    /\ chamadasSem[1].temperaturas = chamadasSem[3].temperaturas
    /\ chamadasSem[1].temperaturas # chamadasSem[2].temperaturas
    /\ Len(chamadasSem[1].temperaturas) = 2
    /\ chamadasSem[1].temperaturas[1] # chamadasSem[1].temperaturas[2]

-----------------------------------------------------------------------------
(* Claims on the discretization of the route *)

\* a / b <= c / d for quotients with positive denominators
QuocienteLE(p, q) == p.num * q.den <= q.num * p.den

\* floor(length / spacing) of segment i (from 0), from the squared length
PontosInteiros(i) ==
    LET a == dados_linha[i + 1]
        b == dados_linha[i + 2]
        d2 == (b.x - a.x) * (b.x - a.x) + (b.y - a.y) * (b.y - a.y)
        s == distancia_entre_pontos
    IN  CHOOSE m \in 0..20 : m * m * s * s <= d2 /\ d2 < (m + 1) * (m + 1) * s * s

ProgressivaCrescente ==
    \A i \in 1..(Len(dados_linha) - 1) :
        dados_linha[i].Progressiva < dados_linha[i + 1].Progressiva

\* C27: for a route of n >= 2 vertices discretizar_linha emits points whose
\* ponto_id are 0, 1, 2, ... in emission order, whose segment index does not
\* decrease, whose fraction lies in [0, 1) except for the last point, which
\* is the one point of the final vertex, at fraction 1.0; segment i
\* contributes max(1, floor(length_i / spacing)) points; the chainage of the
\* points does not decrease when the chainage of the vertices increases.
C27_Discretizacao ==
    pcDisc = "fim" =>
        LET p == pontos_discretizados
            n == Len(dados_linha)
        IN  /\ \A k \in DOMAIN p : p[k].ponto_id = k - 1
            /\ \A k \in 1..(Len(p) - 1) :
                  /\ p[k].segmento <= p[k + 1].segmento
                  /\ 0 <= p[k].fracao_segmento.num
                  /\ p[k].fracao_segmento.num < p[k].fracao_segmento.den
                  /\ p[k].segmento < n - 1
            /\ p[Len(p)].segmento = n - 1
            /\ p[Len(p)].fracao_segmento.num = p[Len(p)].fracao_segmento.den
            /\ p[Len(p)].azimute = dados_linha[n].azimute
            /\ \A i \in 0..(n - 2) :
                  Cardinality({k \in DOMAIN p : p[k].segmento = i})
                      = IF PontosInteiros(i) >= 1 THEN PontosInteiros(i) ELSE 1
            /\ ProgressivaCrescente =>
                  \A k \in 1..(Len(p) - 1) :
                      QuocienteLE(p[k].progressiva_aprox, p[k + 1].progressiva_aprox)

\* C27 witness: three vertices, segments of 2500 m and 5000 m at 1000 m
\* spacing: 2 + 5 points and the last one, the third at chainage 2500
C27_Witness ==
    /\ pcDisc = "fim"
    /\ distancia_entre_pontos = DISTANCIA_DISCRETIZACAO
    /\ Len(dados_linha) = 3
    /\ dados_linha[2] = Vertice(2500, 0, 2500, 15)
    /\ dados_linha[3] = Vertice(5500, 4000, 7500, 30)
    /\ Len(pontos_discretizados) = 8
    /\ pontos_discretizados[2].fracao_segmento = Quociente(1, 2)
    /\ pontos_discretizados[3].segmento = 1
    /\ pontos_discretizados[3].progressiva_aprox = Quociente(5 * 2500, 5)
    /\ pontos_discretizados[8].ponto_id = 7

\* a segment of length 0: one point at fraction 0
C27_WitnessCurto ==
    /\ pcDisc = "fim"
    /\ Len(dados_linha) = 2
    /\ dados_linha[2].x = 0 /\ dados_linha[2].y = 0
    /\ Len(pontos_discretizados) = 2
    /\ pontos_discretizados[1].fracao_segmento = Quociente(0, 1)

-----------------------------------------------------------------------------
(* Claims on the failure value of the heat balance *)

\* the heat balance of the scenario at conductor temperature T_c
BalancoEm(T_c) ==
    equacao_balanco_termico(condutor, T_c, cenario.corrente, cenario.radiacao_solar,
                            cenario.azimute_linha, cenario.velocidade_vento,
                            cenario.angulo_vento, cenario.temperatura_ar)

\* a term of the balance raises: math.sin of an infinite angle
TermoFalha == cenario.angulo_vento.k = "inf"

\* C28: equacao_balanco_termico never raises and never returns zero as an
\* error value: when a term computation fails it returns +inf, at both
\* ends of the bracket too, and the brentq solve then ends in the fallback
\* T_air + 50, not in a reported root, and no exception leaves the solver.
C28_FalhaInfinita ==
    (pcTermico = "resolvido" /\ solucao.metodo = "brentq" /\ TermoFalha) =>
        /\ \A T_c \in (cenario.temperatura_ar - 10)..(cenario.temperatura_ar + 300) :
              BalancoEm(T_c) = PInf
        /\ solucao.recuo
        /\ ~solucao.excecao
        /\ solucao.T = Fin(cenario.temperatura_ar + 50)

\* C28 witness: 500 A, a wind of 2 m/s at an infinite angle, 25 degC air:
\* the solve ended in the fallback 75 degC
C28_Witness ==
    /\ pcTermico = "resolvido"
    /\ solucao.metodo = "brentq"
    /\ TermoFalha
    /\ cenario.corrente = Corrente(5)
    /\ cenario.temperatura_ar = 25
    /\ BalancoEm(25) = PInf /\ BalancoEm(225) = PInf
    /\ solucao.recuo
    /\ solucao.T = Fin(75)

-----------------------------------------------------------------------------
(* Claims on the bracket of the solver *)

RadiacaoNaoNegativa ==
    isfinite(cenario.radiacao_solar) /\ cenario.radiacao_solar.v >= 0

\* C29: with solar radiation >= 0 the heat balance at T_c = T_air is
\* joule + solar >= 0, both cooling terms being 0 there, so the brentq
\* solve never raises its upper limit to T_air + 300, and every value it
\* returns, root or fallback, lies in [T_air - 10, T_air + 200].
C29_SemAlargarAcima ==
    (pcTermico = "resolvido" /\ solucao.metodo = "brentq" /\ RadiacaoNaoNegativa) =>
        LET T_ar == cenario.temperatura_ar
            f_min == BalancoEm(T_ar)
            F == FuncaoObjetivo(condutor, cenario.corrente, cenario.radiacao_solar,
                                cenario.azimute_linha, cenario.velocidade_vento,
                                cenario.angulo_vento, T_ar)
        IN  /\ isfinite(cenario.angulo_vento) =>
                  /\ calcular_resfriamento_convectivo(
                         condutor, cenario.velocidade_vento, cenario.angulo_vento.v,
                         T_ar, T_ar) = 0
                  /\ calcular_resfriamento_radiativo(condutor, T_ar, T_ar) = 0
                  /\ f_min = Fin(calcular_aquecimento_joule(condutor, cenario.corrente, T_ar)
                                 + calcular_aquecimento_solar(
                                       condutor, cenario.radiacao_solar.v,
                                       cenario.azimute_linha))
            /\ ~FloatLT(f_min, Fin(0)) /\ ~isnan(f_min)
            /\ LimitesBrentq(F, T_ar).T_max = T_ar + 200
            /\ isfinite(solucao.T)
            /\ T_ar - 10 <= solucao.T.v /\ solucao.T.v <= T_ar + 200

\* C29 witness: the Drake conductor at 3000 A, 800 W/m2, a cross wind of
\* 2 m/s: the balance is positive at T_air and at T_air + 200, the lower
\* limit is the one moved, and the value returned is the fallback 75 degC
C29_Witness ==
    /\ pcTermico = "resolvido"
    /\ solucao.metodo = "brentq"
    /\ condutor = CondutorDrake
    /\ cenario.corrente = Corrente(30)
    /\ cenario.radiacao_solar = Fin(800)
    /\ cenario.angulo_vento = Fin(90)
    /\ cenario.temperatura_ar = 25
    /\ FloatGT(BalancoEm(25), Fin(0)) /\ FloatGT(BalancoEm(225), Fin(0))
    /\ solucao.T = Fin(75)

\* a root reported with radiation >= 0: 500 A, inside [T_air, T_air + 200]
C29_WitnessRaiz ==
    /\ pcTermico = "resolvido"
    /\ solucao.metodo = "brentq"
    /\ RadiacaoNaoNegativa
    /\ cenario.corrente = Corrente(5)
    /\ ~solucao.recuo
    /\ solucao.T.v > cenario.temperatura_ar

\* with negative radiation the other branch is taken
C29_WitnessNegativa ==
    /\ pcTermico = "resolvido"
    /\ solucao.metodo = "brentq"
    /\ cenario.radiacao_solar = Fin(-2000)
    /\ LimitesBrentq(FuncaoObjetivo(condutor, cenario.corrente, cenario.radiacao_solar,
                                    cenario.azimute_linha, cenario.velocidade_vento,
                                    cenario.angulo_vento, cenario.temperatura_ar),
                     cenario.temperatura_ar).T_max = cenario.temperatura_ar + 300

-----------------------------------------------------------------------------
(* Claims on the sampling methods *)

MetodosSuportados == {"normal", "lognormal", "triangular"}

\* the last sample was returned, each of the four values inside its limits
AmostraLimitada ==
    LET a == ultimaIteracao.amostra
    IN  /\ ~ultimaIteracao.excecao
        /\ TEMP_AR_MIN <= a.temperatura_ar /\ a.temperatura_ar <= TEMP_AR_MAX
        /\ RADIACAO_MIN <= a.radiacao_global /\ a.radiacao_global <= RADIACAO_MAX
        /\ -(100 * VENTO_VEL_MAX) <= a.vento_u /\ a.vento_u <= 100 * VENTO_VEL_MAX
        /\ -(100 * VENTO_VEL_MAX) <= a.vento_v /\ a.vento_v <= 100 * VENTO_VEL_MAX

\* every iteration so far failed and was counted
TodasContadasComoErro ==
    /\ ultimaIteracao.excecao
    /\ iteracoes_com_erro = iteracao
    /\ temperaturas_condutor = <<>>

\* C30: for every input accepted by _validar_dados_entrada, a standard
\* deviation of exactly 0 included, and each of the methods normal,
\* lognormal and triangular, _amostrar_variaveis_ambientais returns a
\* finite clamped value for each of the four variables without raising; an
\* unknown method raises ValueError, which the loop counts as a failed
\* iteration.
C30_AmostraSempre ==
    IteracaoFeita =>
        IF entradaMC.metodo_amostragem \in MetodosSuportados
        THEN AmostraLimitada
        ELSE TodasContadasComoErro

\* the triangular method with a deviation of 0 in some variable
TriangularDegenerada ==
    /\ entradaMC.metodo_amostragem = "triangular"
    /\ \E var \in variaveis_obrigatorias : entradaMC.desvios[var] = Fin(0)

\* C30, what holds: normal and lognormal return clamped values for every
\* accepted input, triangular when every deviation is above 0; triangular
\* with a deviation of 0 raises in every iteration, as an unknown method does
C30_AmostraNaoDegenerada ==
    IteracaoFeita =>
        IF entradaMC.metodo_amostragem \in MetodosSuportados /\ ~TriangularDegenerada
        THEN AmostraLimitada
        ELSE TodasContadasComoErro

\* triangular, all deviations 0: both iterations failed, nothing appended
C30_FalhaTriangular ==
    /\ pcMC = "fim"
    /\ entradaMC.metodo_amostragem = "triangular"
    /\ entradaMC.desvios = Medias(0, 0, 0, 0)
    /\ entradaMC.num_iteracoes = 2
    /\ resultadoMC.iteracoes_com_erro = 2
    /\ resultadoMC.iteracoes_validas = 0

\* triangular with every deviation above 0 returns a sample
C30_TriangularValida ==
    /\ IteracaoFeita
    /\ entradaMC.metodo_amostragem = "triangular"
    /\ AmostraLimitada
    /\ ultimaIteracao.amostra.radiacao_global > 800

\* an unknown method: counted as failed
C30_MetodoDesconhecido ==
    /\ IteracaoFeita
    /\ entradaMC.metodo_amostragem = "uniforme"
    /\ TodasContadasComoErro

\* lognormal with deviation 0 falls back to the normal draw
C30_LognormalSemDesvio ==
    /\ IteracaoFeita
    /\ entradaMC.metodo_amostragem = "lognormal"
    /\ entradaMC.desvios = Medias(0, 0, 0, 0)
    /\ AmostraLimitada
    /\ ultimaIteracao.amostra.radiacao_global = 800

====
